---- MODULE Spec2Model ----
(***************************************************************************)
(* Model of relayer (src/relayer/core/__init__.py, helpers.py): the        *)
(* path-addressed mutation engine Relayer._modify_key, the batch           *)
(* applicator Relayer._mod_kvs, the deep merge and the orchestrator        *)
(* Relayer.relayer_config.                                                 *)
(*                                                                         *)
(* Tree nodes are tagged records:                                          *)
(*   scalar  [t |-> "int"|"float"|"bool"|"str", v |-> <python str(x)>]     *)
(*   map     [t |-> "map",  m |-> function from key strings to nodes]      *)
(*   list    [t |-> "list", l |-> sequence of nodes]                       *)
(*   None    [t |-> "none"]  (the value of a remove request)               *)
(* Python positions are 0-based; position p is element p+1 of the          *)
(* sequence.  The recursion of update_section is modelled with value       *)
(* semantics: every operator returns the object its Python counterpart     *)
(* leaves behind (mutated in place or rebound).                            *)
(***************************************************************************)
EXTENDS Integers, Sequences, FiniteSets, TLC

----------------------------------------------------------------------------
(* Tree nodes *)

IntNode(s) == [t |-> "int", v |-> s]

FloatNode(s) == [t |-> "float", v |-> s]

BoolNode(s) == [t |-> "bool", v |-> s]

StrNode(s) == [t |-> "str", v |-> s]

NoneVal == [t |-> "none"]

MapNode(f) == [t |-> "map", m |-> f]

ListNode(s) == [t |-> "list", l |-> s]

EmptyFcn == [x \in {} |-> x]

EmptyMap == MapNode(EmptyFcn)

IsMap(n) == n.t = "map"

IsList(n) == n.t = "list"

IsScalar(n) == n.t \in {"int", "float", "bool", "str"}

\* isinstance(x, int): bool is a subclass of int in Python
IsIntInstance(n) == n.t \in {"int", "bool"}

\* str(x) of a scalar: scalars carry their Python str() text
StrOf(n) == n.v

HasKey(n, k) == IsMap(n) /\ k \in DOMAIN n.m

MapSet(f, k, val) == [x \in (DOMAIN f) \cup {k} |-> IF x = k THEN val ELSE f[x]]

MapDel(f, k) == [x \in (DOMAIN f) \ {k} |-> f[x]]

\* list.insert(p, v) for an integer p >= 0: positions past the end append
SeqInsert(s, p, val) ==
    LET q == IF p > Len(s) THEN Len(s) ELSE p
    IN  SubSeq(s, 1, q) \o <<val>> \o SubSeq(s, q + 1, Len(s))

\* s[p:p] = vs for an integer p >= 0
SeqSplice(s, p, vs) ==
    LET q == IF p > Len(s) THEN Len(s) ELSE p
    IN  SubSeq(s, 1, q) \o vs \o SubSeq(s, q + 1, Len(s))

\* del s[p] for 0 <= p < len(s)
SeqDel(s, p) == SubSeq(s, 1, p) \o SubSeq(s, p + 2, Len(s))

\* s[p] = v for 0 <= p < len(s)
SeqSet(s, p, val) == [s EXCEPT ![p + 1] = val]

\* Python == on two numbers: True == 1, False == 0, 1 == 1.0, -0.0 == 0.
\* NumKey is the str() text of the number as a float.
NumKey(n) ==
    IF n.t = "bool" THEN (IF n.v = "True" THEN "1.0" ELSE "0.0")
    ELSE IF n.t = "int" THEN n.v \o ".0"
    ELSE IF n.v = "-0.0" THEN "0.0"
    ELSE n.v

ScalarEq(a, b) ==
    IF a.t = "str" /\ b.t = "str" THEN a.v = b.v
    ELSE IF a.t # "str" /\ b.t # "str" THEN NumKey(a) = NumKey(b)
    ELSE FALSE

RECURSIVE PyEq(_, _)
\* Python == on two tree nodes
PyEq(a, b) ==
    IF IsScalar(a) /\ IsScalar(b) THEN ScalarEq(a, b)
    ELSE IF IsList(a) /\ IsList(b)
         THEN Len(a.l) = Len(b.l) /\ \A i \in 1..Len(a.l) : PyEq(a.l[i], b.l[i])
    ELSE IF IsMap(a) /\ IsMap(b)
         THEN DOMAIN a.m = DOMAIN b.m /\ \A k \in DOMAIN a.m : PyEq(a.m[k], b.m[k])
    ELSE a.t = "none" /\ b.t = "none"

\* helpers.as_list
as_list(element) == IF IsList(element) THEN element ELSE ListNode(<<element>>)

----------------------------------------------------------------------------
(* Python strings.  A string that the program takes apart is a sequence of  *)
(* one-character strings; Join gives the string itself.                     *)

RECURSIVE Join(_)
Join(chars) == IF Len(chars) = 0 THEN "" ELSE Head(chars) \o Join(Tail(chars))

\* ch in s
HasChar(chars, ch) == \E i \in 1..Len(chars) : chars[i] = ch

\* the positions of ch in s (1-based)
Positions(chars, ch) == {i \in 1..Len(chars) : chars[i] = ch}

FirstOf(S) == CHOOSE i \in S : \A j \in S : i <= j

LastOf(S) == CHOOSE i \in S : \A j \in S : j <= i

CutBefore(chars, i) == SubSeq(chars, 1, i - 1)

CutAfter(chars, i) == SubSeq(chars, i + 1, Len(chars))

RECURSIVE Split(_, _)
\* s.split(sep) for a one-character sep: empty pieces are kept
Split(chars, sep) ==
    IF ~HasChar(chars, sep) THEN <<chars>>
    ELSE <<CutBefore(chars, FirstOf(Positions(chars, sep)))>>
         \o Split(CutAfter(chars, FirstOf(Positions(chars, sep))), sep)

\* s.split(sep, 1)
SplitOnce(chars, sep) ==
    IF ~HasChar(chars, sep) THEN <<chars>>
    ELSE <<CutBefore(chars, FirstOf(Positions(chars, sep))),
           CutAfter(chars, FirstOf(Positions(chars, sep)))>>

\* the whitespace of the strings of the model
Whitespace == {" "}

RECURSIVE LStrip(_)
LStrip(chars) ==
    IF Len(chars) > 0 /\ Head(chars) \in Whitespace THEN LStrip(Tail(chars)) ELSE chars

RECURSIVE RStrip(_)
RStrip(chars) ==
    IF Len(chars) > 0 /\ chars[Len(chars)] \in Whitespace
    THEN RStrip(SubSeq(chars, 1, Len(chars) - 1)) ELSE chars

\* s.strip()
Strip(chars) == RStrip(LStrip(chars))

DigitValue ==
    [ch \in {"0", "1", "2", "3", "4", "5", "6", "7", "8", "9"} |->
        CASE ch = "0" -> 0 [] ch = "1" -> 1 [] ch = "2" -> 2 [] ch = "3" -> 3
          [] ch = "4" -> 4 [] ch = "5" -> 5 [] ch = "6" -> 6 [] ch = "7" -> 7
          [] ch = "8" -> 8 [] ch = "9" -> 9]

AllDigits(chars) == \A i \in 1..Len(chars) : chars[i] \in DOMAIN DigitValue

\* s.isdigit()
IsDigit(chars) == Len(chars) > 0 /\ AllDigits(chars)

RECURSIVE DigitsValue(_)
\* the number a run of digits writes
DigitsValue(chars) ==
    IF Len(chars) = 0 THEN 0
    ELSE 10 * DigitsValue(SubSeq(chars, 1, Len(chars) - 1))
         + DigitValue[chars[Len(chars)]]

LowerOf ==
    [ch \in {"A", "B", "C", "D", "E", "F", "G", "H", "I", "J", "K", "L", "M", "N",
             "O", "P", "Q", "R", "S", "T", "U", "V", "W", "X", "Y", "Z"} |->
        CASE ch = "A" -> "a" [] ch = "B" -> "b" [] ch = "C" -> "c" [] ch = "D" -> "d"
          [] ch = "E" -> "e" [] ch = "F" -> "f" [] ch = "G" -> "g" [] ch = "H" -> "h"
          [] ch = "I" -> "i" [] ch = "J" -> "j" [] ch = "K" -> "k" [] ch = "L" -> "l"
          [] ch = "M" -> "m" [] ch = "N" -> "n" [] ch = "O" -> "o" [] ch = "P" -> "p"
          [] ch = "Q" -> "q" [] ch = "R" -> "r" [] ch = "S" -> "s" [] ch = "T" -> "t"
          [] ch = "U" -> "u" [] ch = "V" -> "v" [] ch = "W" -> "w" [] ch = "X" -> "x"
          [] ch = "Y" -> "y" [] ch = "Z" -> "z"]

\* s.lower()
Lower(chars) ==
    [i \in 1..Len(chars) |->
        IF chars[i] \in DOMAIN LowerOf THEN LowerOf[chars[i]] ELSE chars[i]]

----------------------------------------------------------------------------
(* Path segments: the result of _enrich_level_index on one level *)

NoIdx == [k |-> "none"]

IntIdx(n) == [k |-> "int", n |-> n]

StrIdx(s) == [k |-> "str", s |-> s]

Seg(name, idx) == [name |-> name, idx |-> idx]

IsStart(idx) == idx.k = "str" /\ idx.s = "start"

IsEnd(idx) == idx.k = "str" /\ idx.s = "end"

IsIntIdx(idx) == idx.k = "int"

\* section_idx after lines 318-321 / 343-346: start -> 0, end -> len - 1
ResolveSectionIdx(idx, len) ==
    IF IsStart(idx) THEN IntIdx(0)
    ELSE IF IsEnd(idx) THEN IntIdx(len - 1)
    ELSE idx

\* (idx == section_idx or section_idx is None), pos 0-based
PosEligible(pos, sidx) == sidx.k = "none" \/ (sidx.k = "int" /\ sidx.n = pos)

----------------------------------------------------------------------------
(* Results and errors.  An operator that fails returns, in sec, the state  *)
(* its argument object was left in when the exception was raised.          *)

NoError == "none"

KeyNotFoundError == "Key not found in dict"

SubsectionNotFoundError == "Subsection not found in dict"

LeafWhereSubsectionExpectedError == "Leaf was found where subsection expected"

NotAListError == "Key is not a list"

ListNotFoundError == "List doesn't exist"

\* IndexError: raised at line 399 and by the list operations of lines 406, 481
IndexOutOfRangeError == "IndexError"

\* ValueError of line 371
InvalidListIndexError == "List index has invalid value"

\* Python's own TypeError / AttributeError of an operation on the wrong type
PyTypeError == "TypeError"

PyAttributeError == "AttributeError"

R(sec, changed, err) == [sec |-> sec, changed |-> changed, err |-> err]

Ok(sec, changed) == R(sec, changed, NoError)

Fail(sec, err) == R(sec, FALSE, err)

----------------------------------------------------------------------------
(* _get_subsection / _assign_subsection *)

\* the element test of the loops of lines 322-332 and 347-357, pos 0-based
ElementMatches(section, key, sidx, pos) ==
    LET element == section.l[pos + 1]
    IN  /\ PosEligible(pos, sidx)
        /\ \/ (element.t = "str" /\ element.v = key)
           \/ HasKey(element, key)

\* returns [found, val, pos]; found = FALSE stands for (None, None)
_get_subsection(section, key, section_idx) ==
    IF IsMap(section)
    THEN IF key \in DOMAIN section.m
         THEN [found |-> TRUE, val |-> section.m[key], pos |-> -1]
         ELSE [found |-> FALSE, val |-> NoneVal, pos |-> -1]
    ELSE IF IsList(section)
    THEN LET sidx == ResolveSectionIdx(section_idx, Len(section.l))
             hits == {p \in 0..(Len(section.l) - 1) :
                         ElementMatches(section, key, sidx, p)}
         IN  IF hits = {}
             THEN [found |-> FALSE, val |-> NoneVal, pos |-> -1]
             ELSE LET p == CHOOSE q \in hits : \A o \in hits : q <= o
                      element == section.l[p + 1]
                  IN  [found |-> TRUE,
                       val |-> IF IsMap(element) THEN element.m[key] ELSE element,
                       pos |-> p]
    ELSE [found |-> FALSE, val |-> NoneVal, pos |-> -1]

\* mutant: the Map is rebound to the assigned key alone
_assign_subsection_alone(section, key, subsection, section_idx) ==
    IF IsMap(section) THEN MapNode(key :> subsection) ELSE section

_assign_subsection(section, key, subsection, section_idx) ==
    IF IsMap(section)
    THEN IF key \in DOMAIN section.m
         THEN MapNode(MapSet(section.m, key, subsection))
         ELSE section
    ELSE IF IsList(section)
    THEN LET sidx == ResolveSectionIdx(section_idx, Len(section.l))
         IN  ListNode([i \in 1..Len(section.l) |->
                 LET element == section.l[i]
                 IN  IF ~ElementMatches(section, key, sidx, i - 1) THEN element
                     ELSE IF IsMap(element)
                          THEN MapNode(MapSet(element.m, key, subsection))
                          ELSE subsection])
    ELSE section

\* The state of section after the object _get_subsection returned (at pos)
\* was mutated in place into sub and an exception unwound the recursion.
InPlaceState(section, key, pos, sub) ==
    IF IsMap(section) THEN MapNode(MapSet(section.m, key, sub))
    ELSE IF IsList(section) /\ IsMap(section.l[pos + 1])
    THEN ListNode(SeqSet(section.l, pos,
                         MapNode(MapSet(section.l[pos + 1].m, key, sub))))
    ELSE section

----------------------------------------------------------------------------
(* The terminal handlers of _modify_key.  c is the closure of _modify_key: *)
(* [value, append_mode, extend_mode, list_insert_mode, rm_mode,            *)
(*  rm_value_mode, ignore_not_found].  A handler works on target, the      *)
(* object section[level], and returns in sec the object that section[level]*)
(* is bound to once the caller has reassigned the subsection.              *)

_handle_extend_list(target, level_idx, c) ==
    LET extend_value == as_list(c.value).l
    IN  IF IsStart(level_idx) THEN Ok(ListNode(extend_value \o target.l), TRUE)
        ELSE IF IsIntIdx(level_idx)
        THEN Ok(ListNode(SeqSplice(target.l, level_idx.n, extend_value)), TRUE)
        ELSE IF level_idx.k = "none" \/ (level_idx.k = "str" /\ level_idx.s = "")
        THEN Ok(ListNode(target.l \o extend_value), TRUE)
        ELSE Fail(target, InvalidListIndexError)

\* mutant: start and end overwrite the first and the last element
_handle_add_to_list_overwriting(target, level_idx, c) ==
    IF IsStart(level_idx) THEN Ok(ListNode(SeqSet(target.l, 0, c.value)), TRUE)
    ELSE Ok(ListNode(SeqSet(target.l, Len(target.l) - 1, c.value)), TRUE)

_handle_add_to_list(target, level_idx, c) ==
    IF c.extend_mode THEN _handle_extend_list(target, level_idx, c)
    ELSE IF IsStart(level_idx) THEN Ok(ListNode(<<c.value>> \o target.l), TRUE)
    ELSE IF IsEnd(level_idx) THEN Ok(ListNode(Append(target.l, c.value)), TRUE)
    ELSE IF c.list_insert_mode
    THEN IF IsIntIdx(level_idx)
         THEN IF level_idx.n > Len(target.l)
              THEN Fail(target, IndexOutOfRangeError)
              ELSE Ok(ListNode(SeqInsert(target.l, level_idx.n, c.value)), TRUE)
         \* list.insert(None, v) / list.insert("x", v)
         ELSE Fail(target, PyTypeError)
    ELSE IF IsIntIdx(level_idx)
    THEN IF level_idx.n < Len(target.l)
         THEN Ok(ListNode(SeqSet(target.l, level_idx.n, c.value)), TRUE)
         ELSE Fail(target, IndexOutOfRangeError)
    \* list["x"] = v
    ELSE Fail(target, PyTypeError)

\* section is the Map or List that holds level; returns the new subsection
\* (direct_insert if not None, else the mutated section[level])
_handle_insert_in_section(section, level, level_idx, c) ==
    IF level_idx.k # "none" \/ c.extend_mode \/ c.list_insert_mode
    THEN \* section[level] on a List section: list indices must be integers
         IF ~IsMap(section) THEN Fail(NoneVal, PyTypeError)
         ELSE IF ~IsList(section.m[level]) THEN Fail(section.m[level], NotAListError)
         ELSE _handle_add_to_list(section.m[level], level_idx, c)
    ELSE Ok(c.value, TRUE)

\* simplejson.loads on the symbolic indices of the model: the strings that
\* are JSON documents, and what they decode to
JsonDocuments == {"true"}

JsonLoads(s) == BoolNode("True")

\* s in t for two strings of the model: apart from the empty string, no
\* string of the model is a proper substring of another
IsSubstring(s, t) == s = "" \/ s = t

Contains(seq, val) == \E i \in 1..Len(seq) : PyEq(seq[i], val)

FirstEqual(seq, val) == CHOOSE i \in 1..Len(seq) :
                            PyEq(seq[i], val) /\ \A j \in 1..(i - 1) : ~PyEq(seq[j], val)

\* target is section[level]; rm_value is the bracketed index of the level
_handle_rm_by_value(target, rm_value) ==
    \* simplejson.loads(None) / simplejson.loads(1)
    IF rm_value.k # "str" THEN Fail(target, PyTypeError)
    ELSE IF rm_value.s \notin JsonDocuments
    THEN IF IsList(target)
         THEN IF ~Contains(target.l, StrNode(rm_value.s)) THEN Ok(target, TRUE)
              ELSE Ok(ListNode(SeqDel(target.l,
                                      FirstEqual(target.l, StrNode(rm_value.s)) - 1)),
                      TRUE)
         ELSE IF IsMap(target)
         THEN IF rm_value.s \notin DOMAIN target.m THEN Ok(target, TRUE)
              ELSE Fail(target, PyAttributeError)
         \* "x" in "text" tests for a substring
         ELSE IF target.t = "str"
         THEN IF ~IsSubstring(rm_value.s, target.v) THEN Ok(target, TRUE)
              ELSE Fail(target, PyAttributeError)
         \* "x" in 5
         ELSE Fail(target, PyTypeError)
    ELSE LET decoded == JsonLoads(rm_value.s)
         IN  IF IsList(target)
             THEN IF ~Contains(target.l, decoded) THEN Ok(target, TRUE)
                  ELSE Ok(ListNode(SeqDel(target.l,
                                          FirstEqual(target.l, decoded) - 1)), TRUE)
             \* enumerate over the keys of a Map or the characters of a
             \* string: none equals a decoded non-string
             ELSE IF IsMap(target) \/ target.t = "str" THEN Ok(target, TRUE)
             ELSE Fail(target, PyTypeError)

\* section[level] is the list _handle_rm_by_value mutated in place
RmByValueReturn(section, level, r) ==
    R(MapNode(MapSet(section.m, level, r.sec)), r.changed, r.err)

\* returns the section after the removal; changed = FALSE stands for the
\* return value True (index out of range, ignored)
_handle_rm_from_section(section, level, level_idx, c) ==
    \* section[level] / section.pop(level) on a List section
    IF ~IsMap(section) THEN Fail(section, PyTypeError)
    ELSE LET target == section.m[level]
         IN  IF c.rm_value_mode
             THEN RmByValueReturn(section, level,
                                  _handle_rm_by_value(target, level_idx))
             ELSE IF level_idx.k # "none"
             THEN IF ~IsList(target) THEN Fail(section, NotAListError)
                  \* len(section[level]) < "x" and del section[level]["x"]
                  ELSE IF ~IsIntIdx(level_idx) THEN Fail(section, PyTypeError)
                  ELSE IF c.ignore_not_found /\ Len(target.l) < level_idx.n
                  THEN Ok(section, FALSE)
                  ELSE IF level_idx.n < Len(target.l)
                  THEN Ok(MapNode(MapSet(section.m, level,
                                         ListNode(SeqDel(target.l, level_idx.n)))),
                          TRUE)
                  ELSE Fail(section, IndexOutOfRangeError)
             ELSE Ok(MapNode(MapDel(section.m, level)), TRUE)

----------------------------------------------------------------------------
(* update_section: the recursion of _modify_key *)

\* mutant: index 0 does not establish a List
CreatesList_named(level_idx) == IsStart(level_idx) \/ IsEnd(level_idx)

\* mutant: any removal of an absent key is ignored, whatever ignore_not_found
TerminalAbsent_ignoring(section, level, level_idx, c) ==
    IF c.rm_mode THEN Ok(section, FALSE) ELSE Fail(section, KeyNotFoundError)

\* level_idx in [ListIndices.start, ListIndices.end, 0]
CreatesList(level_idx) ==
    IsStart(level_idx) \/ IsEnd(level_idx) \/ (IsIntIdx(level_idx) /\ level_idx.n = 0)

\* lines 520-562: the terminal level names nothing that exists
TerminalAbsent(section, level, level_idx, c) ==
    IF ~c.append_mode
    THEN IF c.rm_mode /\ c.ignore_not_found THEN Ok(section, FALSE)
         ELSE Fail(section, KeyNotFoundError)
    ELSE IF ~CreatesList(level_idx) /\ level_idx.k # "none"
    THEN Fail(section, ListNotFoundError)
    ELSE LET new_value == IF CreatesList(level_idx) THEN as_list(c.value) ELSE c.value
         IN  IF IsMap(section) THEN Ok(MapNode(MapSet(section.m, level, new_value)), TRUE)
             ELSE IF IsList(section)
             THEN Ok(ListNode(Append(section.l, MapNode(level :> new_value))), TRUE)
             ELSE Ok(MapNode(StrOf(section) :> MapNode(level :> new_value)), TRUE)

\* lines 582-589 after _handle_rm_from_section returned r
RemovedReturn(section, level, section_idx, r) ==
    IF r.err # NoError THEN r
    \* ignored_missing_key: nothing is reassigned
    ELSE IF ~r.changed THEN Ok(section, FALSE)
    \* subsection is the object section[level], mutated in place, or the
    \* popped value whose key is gone
    ELSE Ok(IF level \in DOMAIN r.sec.m
            THEN _assign_subsection(r.sec, level, r.sec.m[level], section_idx)
            ELSE r.sec,
            TRUE)

\* lines 579-589 after _handle_insert_in_section returned r
InsertedReturn(section, level, section_idx, r) ==
    IF r.err # NoError THEN Fail(section, r.err)
    ELSE Ok(_assign_subsection(section, level, r.sec, section_idx), TRUE)

\* lines 565-589: the terminal level names an existing subsection
TerminalPresent(section, level, level_idx, subsection, section_idx, c) ==
    IF c.rm_mode
    THEN RemovedReturn(section, level, section_idx,
                       _handle_rm_from_section(section, level, level_idx, c))
    ELSE IF ~PyEq(subsection, c.value)
    THEN InsertedReturn(section, level, section_idx,
                        _handle_insert_in_section(section, level, level_idx, c))
    \* has_changed = not ignored_missing_key
    ELSE Ok(_assign_subsection(section, level, subsection, section_idx), TRUE)

\* mutant: the new subsection is never stored in its Map
CreatedReturn_dropped(section, level, r) == R(section, r.err = NoError, r.err)

\* lines 604-638 after the recursion into the new empty Map returned r
CreatedReturn(section, level, r) ==
    IF IsMap(section)
    THEN R(MapNode(MapSet(section.m, level, r.sec)), r.err = NoError, r.err)
    ELSE IF IsList(section)
    THEN R(ListNode(Append(section.l, MapNode(level :> r.sec))), r.err = NoError, r.err)
    \* section is rebound, the leaf itself is not mutated
    ELSE IF r.err # NoError THEN Fail(section, r.err)
    ELSE Ok(MapNode(StrOf(section) :> MapNode(level :> r.sec)), TRUE)

\* lines 663-674 after the recursion into {level: {}} returned r
OverriddenReturn(section, level, section_idx, r) ==
    IF r.err # NoError THEN Fail(section, r.err)
    ELSE Ok(_assign_subsection(section, level, r.sec, section_idx), TRUE)

\* lines 667-674 after the recursion into the existing subsection returned r
RecursedReturn(section, level, section_idx, pos, r) ==
    IF r.err # NoError THEN Fail(InPlaceState(section, level, pos, r.sec), r.err)
    ELSE Ok(_assign_subsection(section, level, r.sec, section_idx), r.changed)

RECURSIVE update_section(_, _, _, _)
\* mutant: a removal with ignore_not_found set also forgives an absent subsection
UpdateFound_ignoring(section, requested_levels, section_idx, c, got) ==
    IF Len(requested_levels) = 1
    THEN IF ~got.found
         THEN TerminalAbsent(section, requested_levels[1].name,
                             requested_levels[1].idx, c)
         ELSE TerminalPresent(section, requested_levels[1].name,
                              requested_levels[1].idx, got.val, section_idx, c)
    ELSE IF ~got.found
    THEN IF ~c.append_mode
         THEN IF c.rm_mode /\ c.ignore_not_found THEN Ok(section, FALSE)
              ELSE Fail(section, SubsectionNotFoundError)
         ELSE CreatedReturn(section, requested_levels[1].name,
                            update_section(EmptyMap, Tail(requested_levels), NoIdx, c))
    ELSE IF IsIntInstance(got.val)
    THEN IF ~c.append_mode THEN Fail(section, LeafWhereSubsectionExpectedError)
         ELSE OverriddenReturn(section, requested_levels[1].name, section_idx,
                               update_section(MapNode(requested_levels[1].name :> EmptyMap),
                                              Tail(requested_levels),
                                              requested_levels[1].idx, c))
    ELSE RecursedReturn(section, requested_levels[1].name, section_idx, got.pos,
                        update_section(got.val, Tail(requested_levels),
                                       requested_levels[1].idx, c))

\* update_section once _get_subsection returned got
UpdateFound(section, requested_levels, section_idx, c, got) ==
    IF Len(requested_levels) = 1
    THEN IF ~got.found
         THEN TerminalAbsent(section, requested_levels[1].name,
                             requested_levels[1].idx, c)
         ELSE TerminalPresent(section, requested_levels[1].name,
                              requested_levels[1].idx, got.val, section_idx, c)
    ELSE IF ~got.found
    THEN IF ~c.append_mode THEN Fail(section, SubsectionNotFoundError)
         ELSE CreatedReturn(section, requested_levels[1].name,
                            update_section(EmptyMap, Tail(requested_levels), NoIdx, c))
    ELSE IF IsIntInstance(got.val)
    THEN IF ~c.append_mode THEN Fail(section, LeafWhereSubsectionExpectedError)
         ELSE OverriddenReturn(section, requested_levels[1].name, section_idx,
                               update_section(MapNode(requested_levels[1].name :> EmptyMap),
                                              Tail(requested_levels),
                                              requested_levels[1].idx, c))
    ELSE RecursedReturn(section, requested_levels[1].name, section_idx, got.pos,
                        update_section(got.val, Tail(requested_levels),
                                       requested_levels[1].idx, c))

update_section(section, requested_levels, section_idx, c) ==
    UpdateFound(section, requested_levels, section_idx, c,
                _get_subsection(section, requested_levels[1].name, section_idx))

----------------------------------------------------------------------------
(* _modify_key, _mod_kvs, _deep_merge_dicts *)

KeyOperations ==
    {"Remove", "Update", "Add", "RemoveListElement", "ExtendList", "InsertToList"}

all_remove_operations == {"Remove", "RemoveListElement"}

\* mutant: Update runs in append mode
mod_key_kwargs_appending(operation, value, ignore_not_found) ==
    [value            |-> value,
     append_mode      |-> operation \in {"Update", "Add", "ExtendList", "InsertToList"},
     extend_mode      |-> operation = "ExtendList",
     list_insert_mode |-> operation = "InsertToList",
     rm_mode          |-> operation \in {"Remove", "RemoveListElement"},
     rm_value_mode    |-> operation = "RemoveListElement",
     ignore_not_found |-> ignore_not_found]

\* mod_key_kwargs of _mod_kvs for one operation, closed over the value
mod_key_kwargs(operation, value, ignore_not_found) ==
    [value            |-> value,
     append_mode      |-> operation \in {"Add", "ExtendList", "InsertToList"},
     extend_mode      |-> operation = "ExtendList",
     list_insert_mode |-> operation = "InsertToList",
     rm_mode          |-> operation \in {"Remove", "RemoveListElement"},
     rm_value_mode    |-> operation = "RemoveListElement",
     ignore_not_found |-> ignore_not_found]

\* A request kv after the parsing of lines 206-277: key is the sequence of
\* levels of full_key, value the converted value (None for a removal)
Request(key, value) == [key |-> key, value |-> value]

_modify_key(config, full_key, c) == update_section(config, full_key, NoIdx, c)

\* one iteration of the loop of lines 206-280
ModifyOne(config, kv, operation, ignore_not_found) ==
    _modify_key(config, kv.key,
                mod_key_kwargs(operation,
                               IF operation \in all_remove_operations
                               THEN NoneVal ELSE kv.value,
                               ignore_not_found))

RECURSIVE ModKvsLoop(_, _, _, _, _)
\* lines 279-280: r is what _modify_key returned or raised for request i
ModKvsNext(acc, r, kvs, i, operation, ignore_not_found) ==
    IF r.err # NoError THEN Fail(r.sec, r.err)
    ELSE ModKvsLoop(Ok(r.sec, acc.changed \/ r.changed), kvs, i + 1,
                    operation, ignore_not_found)

\* the loop of _mod_kvs from request i on; an exception ends it
ModKvsLoop(acc, kvs, i, operation, ignore_not_found) ==
    IF i > Len(kvs) THEN acc
    ELSE ModKvsNext(acc, ModifyOne(acc.sec, kvs[i], operation, ignore_not_found),
                    kvs, i, operation, ignore_not_found)

Reversed(seq) == [i \in 1..Len(seq) |-> seq[Len(seq) + 1 - i]]

\* mutant: the batch is walked from its last request to its first
_mod_kvs_reversed(config, kvs, operation, ignore_not_found) ==
    ModKvsLoop(Ok(config, FALSE), Reversed(kvs), 1, operation, ignore_not_found)

_mod_kvs(config, kvs, operation, ignore_not_found) ==
    ModKvsLoop(Ok(config, FALSE), kvs, 1, operation, ignore_not_found)

RECURSIVE _deep_merge_dicts(_, _)
_deep_merge_dicts(d1, d2) ==
    MapNode([key \in (DOMAIN d1.m) \cup (DOMAIN d2.m) |->
        IF key \notin DOMAIN d2.m THEN d1.m[key]
        ELSE IF key \notin DOMAIN d1.m THEN d2.m[key]
        ELSE IF IsMap(d1.m[key]) /\ IsMap(d2.m[key])
             THEN _deep_merge_dicts(d1.m[key], d2.m[key])
        ELSE IF PyEq(d1.m[key], d2.m[key]) THEN d1.m[key]
        ELSE d2.m[key]])

\* mutant: the merge reports a change only when it altered the document
_merge_configs_if_altered(config_a, config_b) ==
    Ok(_deep_merge_dicts(config_a, config_b),
       _deep_merge_dicts(config_a, config_b) # config_a)

_merge_configs(config_a, config_b) == Ok(_deep_merge_dicts(config_a, config_b), TRUE)

----------------------------------------------------------------------------
(* helpers.convert_value_to_yaml.  A value that is not converted yet is     *)
(*   [t |-> "raw", c |-> chars]       a Python str,                         *)
(*   [t |-> "list", l |-> ...]        a list of such values,                *)
(*   [t |-> "rawmap", items |-> ...]  a dict: its items in insertion order, *)
(*   [t |-> "none"]                   None.                                 *)
(* The strings of the model hold no underscore, no exponent, no "inf" or    *)
(* "nan" and only ASCII digits, so int() and float() accept a sign, digits  *)
(* and, for float(), one point.                                             *)

RawStr(chars) == [t |-> "raw", c |-> chars]

RawMap(items) == [t |-> "rawmap", items |-> items]

Item(k, v) == [k |-> k, v |-> v]

Signed(chars) == Len(chars) > 0 /\ chars[1] \in {"+", "-"}

Unsigned(chars) == IF Signed(chars) THEN Tail(chars) ELSE chars

\* int(s) does not raise ValueError
IntAccepts(chars) == IsDigit(Unsigned(Strip(chars)))

\* int(s)
IntOf(chars) ==
    IF Signed(Strip(chars)) /\ Strip(chars)[1] = "-"
    THEN 0 - DigitsValue(Unsigned(Strip(chars)))
    ELSE DigitsValue(Unsigned(Strip(chars)))

\* float(s) does not raise ValueError
FloatAccepts(chars) ==
    LET body == Unsigned(Strip(chars))
        parts == SplitOnce(body, ".")
    IN  /\ \A i \in 1..Len(parts) : AllDigits(parts[i])
        /\ \E i \in 1..Len(parts) : Len(parts[i]) > 0

RECURSIVE DropTrailingZeros(_)
DropTrailingZeros(chars) ==
    IF Len(chars) > 0 /\ chars[Len(chars)] = "0"
    THEN DropTrailingZeros(SubSeq(chars, 1, Len(chars) - 1)) ELSE chars

\* str(float(s)): the shortest text that reads back as the same number
FloatText(chars) ==
    LET body == Unsigned(Strip(chars))
        parts == SplitOnce(body, ".")
        frac == IF Len(parts) = 2 THEN DropTrailingZeros(parts[2]) ELSE <<>>
    IN  (IF Signed(Strip(chars)) /\ Strip(chars)[1] = "-" THEN "-" ELSE "")
        \o ToString(DigitsValue(parts[1])) \o "."
        \o (IF Len(frac) = 0 THEN "0" ELSE Join(frac))

TrueWords == {"true", "t", "y", "yes"}

FalseWords == {"false", "f", "n", "no"}

\* try_convert_to_bool does not raise ValueError
BoolAccepts(chars) == Join(Lower(chars)) \in TrueWords \cup FalseWords

try_convert_to_bool(chars) ==
    IF Join(Lower(chars)) \in TrueWords THEN BoolNode("True") ELSE BoolNode("False")

\* mutant: float() is tried before int()
single_value_convert_float_first(inner_value) ==
    IF inner_value = NoneVal THEN inner_value
    ELSE IF FloatAccepts(Strip(inner_value.c))
    THEN FloatNode(FloatText(Strip(inner_value.c)))
    ELSE IF BoolAccepts(Strip(inner_value.c))
    THEN try_convert_to_bool(Strip(inner_value.c))
    ELSE StrNode(Join(Strip(inner_value.c)))

single_value_convert(inner_value) ==
    IF inner_value = NoneVal THEN inner_value
    ELSE IF IntAccepts(Strip(inner_value.c))
    THEN IntNode(ToString(IntOf(Strip(inner_value.c))))
    ELSE IF FloatAccepts(Strip(inner_value.c))
    THEN FloatNode(FloatText(Strip(inner_value.c)))
    ELSE IF BoolAccepts(Strip(inner_value.c))
    THEN try_convert_to_bool(Strip(inner_value.c))
    ELSE StrNode(Join(Strip(inner_value.c)))

\* converted_value[key] = val on a dict kept as its items in insertion
\* order: an equal key (1 == True == 1.0) keeps its place and its key object
DictSet(items, key, val) ==
    IF \E i \in 1..Len(items) : PyEq(items[i].k, key)
    THEN [i \in 1..Len(items) |->
             IF PyEq(items[i].k, key) THEN Item(items[i].k, val) ELSE items[i]]
    ELSE Append(items, Item(key, val))

\* a dict as a Map node: a key that is not a string is held as its str() text
DictNode(items) ==
    MapNode([key \in {StrOf(items[i].k) : i \in 1..Len(items)} |->
                items[CHOOSE i \in 1..Len(items) : StrOf(items[i].k) = key].v])

RECURSIVE convert_value_to_yaml(_)
RECURSIVE ConvertItems(_, _, _)
\* the loop over value.items() of lines 63-65, from item i on
ConvertItems(items, i, converted_value) ==
    IF i > Len(items) THEN converted_value
    ELSE ConvertItems(items, i + 1,
                      DictSet(converted_value,
                              convert_value_to_yaml(RawStr(items[i].k)),
                              convert_value_to_yaml(items[i].v)))

convert_value_to_yaml(value) ==
    IF IsList(value)
    THEN ListNode([idx \in 1..Len(value.l) |-> convert_value_to_yaml(value.l[idx])])
    ELSE IF value.t = "rawmap" THEN DictNode(ConvertItems(value.items, 1, <<>>))
    ELSE single_value_convert(value)

----------------------------------------------------------------------------
(* One kv string of a batch: the key and the value of lines 206-277 and the *)
(* levels of lines 678-682                                                  *)

\* ValueError of the unpacking of line 213
PyValueError == "ValueError"

\* Exception of lines 263-265
WrongValueSyntaxError ==
    "Wrong value syntax - expected either a dictionary or a list of dictionaries"

\* what lines 206-277 come to: the request of line 279, or an exception
Parsed(req) == [err |-> NoError, req |-> req]

NotParsed(err) == [err |-> err, req |-> Request(<<>>, NoneVal)]

\* line 210: kv.split("=", 1)[0] if "=" in kv else kv
KvKey(kv) == IF HasChar(kv, "=") THEN SplitOnce(kv, "=")[1] ELSE kv

\* line 213: the second of key, value = kv.split("=", 1)
KvValue(kv) == SplitOnce(kv, "=")[2]

\* mutant: the empty items of the comma list are kept
NonEmptyItems_keeping(items) == items

\* line 270: filter(lambda item: len(item), ...)
NonEmptyItems(items) == SelectSeq(items, LAMBDA item : Len(item) > 0)

\* line 270: a simple list
CommaList(value) ==
    ListNode([i \in 1..Len(NonEmptyItems(Split(value, ","))) |->
                 RawStr(NonEmptyItems(Split(value, ","))[i])])

\* lines 223-227: the pieces of value.split("}") that are not empty
DictPieces(value) == SelectSeq(Split(value, "}"), LAMBDA piece : Len(piece) > 0)

\* split_value.split("{")[1] raises IndexError
NoOpeningBrace(value) ==
    \E i \in 1..Len(DictPieces(value)) : ~HasChar(DictPieces(value)[i], "{")

value_dicts(value) ==
    [i \in 1..Len(DictPieces(value)) |-> Split(DictPieces(value)[i], "{")[2]]

RECURSIVE KeysAndValues(_, _, _, _)
\* the loop of lines 238-253 from piece i on; values[-1] of an empty list
\* raises IndexError
KeysAndValues(pieces, i, keys, values) ==
    IF i > Len(pieces) THEN [err |-> FALSE, keys |-> keys, values |-> values]
    ELSE IF HasChar(pieces[i], ":")
    THEN KeysAndValues(pieces, i + 1,
                       Append(keys, SplitOnce(pieces[i], ":")[1]),
                       Append(values, <<SplitOnce(pieces[i], ":")[2]>>))
    ELSE IF Len(values) = 0
    THEN [err |-> TRUE, keys |-> keys, values |-> values]
    ELSE KeysAndValues(pieces, i + 1, keys,
                       [values EXCEPT ![Len(values)] = Append(@, pieces[i])])

\* real_value_dict[k] = v on a dict of strings kept as its items
RealDictSet(items, k, v) ==
    IF \E i \in 1..Len(items) : items[i].k = k
    THEN [i \in 1..Len(items) |-> IF items[i].k = k THEN Item(k, v) ELSE items[i]]
    ELSE Append(items, Item(k, v))

\* mutant: a key with one value maps to a List of it
ListOrOnly_list(v) == ListNode([i \in 1..Len(v) |-> RawStr(v[i])])

\* line 257: v if len(v) > 1 else v[0]
ListOrOnly(v) ==
    IF Len(v) > 1 THEN ListNode([i \in 1..Len(v) |-> RawStr(v[i])]) ELSE RawStr(v[1])

RECURSIVE RealValueDict(_, _, _)
\* the loop of lines 255-257 from pair i on
RealValueDict(kvs, i, items) ==
    IF i > Len(kvs.keys) THEN items
    ELSE RealValueDict(kvs, i + 1,
                       RealDictSet(items, kvs.keys[i], ListOrOnly(kvs.values[i])))

\* one value_dict of line 228 taken apart
DictParts(value_dict) == KeysAndValues(Split(value_dict, ","), 1, <<>>, <<>>)

\* the try of lines 218-261 raises
DictSyntaxFails(value) ==
    \/ NoOpeningBrace(value)
    \/ \E i \in 1..Len(DictPieces(value)) : DictParts(value_dicts(value)[i]).err

\* converted_value of line 261
DictList(value) ==
    ListNode([i \in 1..Len(DictPieces(value)) |->
                 RawMap(RealValueDict(DictParts(value_dicts(value)[i]), 1, <<>>))])

\* value after lines 216-274 (value is a string that raises nothing)
BuiltValue(value) ==
    IF HasChar(value, "{") THEN DictList(value)
    ELSE IF HasChar(value, ",") THEN CommaList(value)
    ELSE RawStr(value)

\* mutant: every dot divides the key
SplitsAt_everyDot(full_key, i) == full_key[i] = "."

\* r"(?<!\\)\." matches at i
SplitsAt(full_key, i) == full_key[i] = "." /\ (i = 1 \/ full_key[i - 1] # "\\")

\* where the key is divided
SplitPoints(full_key) == {i \in 1..Len(full_key) : SplitsAt(full_key, i)}

RECURSIVE ReSplit(_)
\* line 680: re.split(r"(?<!\\)\.", full_key)
ReSplit(full_key) ==
    IF SplitPoints(full_key) = {} THEN <<full_key>>
    ELSE <<CutBefore(full_key, FirstOf(SplitPoints(full_key)))>>
         \o ReSplit(CutAfter(full_key, FirstOf(SplitPoints(full_key))))

RECURSIVE ReplaceEscapedDots(_)
\* line 680: level.replace("\\.", ".")
ReplaceEscapedDots(level) ==
    IF Len(level) < 2 THEN level
    ELSE IF level[1] = "\\" /\ level[2] = "."
    THEN <<".">> \o ReplaceEscapedDots(SubSeq(level, 3, Len(level)))
    ELSE <<level[1]>> \o ReplaceEscapedDots(Tail(level))

\* the "[" that the greedy (?P<level>.*)\[(?P<idx>.*)\] of line 285 stops
\* at: those with a "]" after them
OpeningBrackets(level) ==
    {i \in Positions(level, "[") : \E j \in Positions(level, "]") : i < j}

\* lines 284-292
_enrich_level_index(level) ==
    IF OpeningBrackets(level) = {} THEN Seg(Join(level), NoIdx)
    ELSE LET idx == SubSeq(level, LastOf(OpeningBrackets(level)) + 1,
                           LastOf(Positions(level, "]")) - 1)
         IN  Seg(Join(CutBefore(level, LastOf(OpeningBrackets(level)))),
                 IF IsDigit(idx) THEN IntIdx(DigitsValue(idx)) ELSE StrIdx(Join(idx)))

\* lines 679-681, each level as _enrich_level_index gives it at line 512
Levels(full_key) ==
    [i \in 1..Len(ReSplit(full_key)) |->
        _enrich_level_index(ReplaceEscapedDots(ReSplit(full_key)[i]))]

\* lines 206-277 on one kv
ParseKv(kv, operation) ==
    IF operation \in all_remove_operations
    THEN Parsed(Request(Levels(KvKey(kv)), NoneVal))
    ELSE IF ~HasChar(kv, "=") THEN NotParsed(PyValueError)
    ELSE IF HasChar(KvValue(kv), "{") /\ DictSyntaxFails(KvValue(kv))
    THEN NotParsed(WrongValueSyntaxError)
    ELSE Parsed(Request(Levels(KvKey(kv)),
                        convert_value_to_yaml(BuiltValue(KvValue(kv)))))

\* _mod_kvs on a batch of one kv, parsed being what lines 206-277 made of it
ModKvsParsed(config, parsed, operation, ignore_not_found) ==
    IF parsed.err # NoError THEN Fail(config, parsed.err)
    ELSE _mod_kvs(config, <<parsed.req>>, operation, ignore_not_found)

----------------------------------------------------------------------------
(* Inputs of the model *)

\* most requests one invocation of relayer_config carries, over all batches
MaxReqs == 2

\* largest integer index written in a request key
MaxIdx == 2

\* most levels of a request key
MaxLevels == 2

SeqsUpTo(S, n) == UNION {[1..k -> S] : k \in 0..n}

Doc(f) == MapNode(f)

\* documents in storage when relayer_config is called
Docs ==
    { EmptyMap,
      Doc(("a" :> StrNode("x")) @@ ("l" :> ListNode(<<StrNode("x"), StrNode("y")>>))),
      Doc(("a" :> Doc(("b" :> IntNode("1")))) @@ ("l" :> ListNode(<<StrNode("x")>>))) }

\* documents named by file_path_to_merge; NoneVal: no file to merge
MergeDocs ==
    { NoneVal,
      Doc(("a" :> StrNode("x"))),
      Doc(("a" :> Doc(("c" :> IntNode("2")))) @@ ("d" :> ListNode(<<>>))) }

K1(name) == <<Seg(name, NoIdx)>>

K1i(name, idx) == <<Seg(name, idx)>>

K2(n1, n2) == <<Seg(n1, NoIdx), Seg(n2, NoIdx)>>

\* the requests an invocation draws each batch from
ReqsOf(operation) ==
    CASE operation = "Remove" ->
           { Request(K1("a"), NoneVal), Request(K2("a", "b"), NoneVal),
             Request(K1i("l", IntIdx(1)), NoneVal),
             Request(K1i("l", IntIdx(MaxIdx)), NoneVal) }
      [] operation = "RemoveListElement" ->
           { Request(K1i("l", StrIdx("x")), NoneVal),
             Request(K1i("b", StrIdx("x")), NoneVal) }
      [] operation = "Update" ->
           { Request(K1("a"), StrNode("x")), Request(K1("a"), StrNode("y")),
             Request(K2("a", "b"), IntNode("1")) }
      [] operation = "Add" ->
           { Request(K1("a"), StrNode("y")), Request(K2("a", "b"), IntNode("2")),
             Request(K1i("l", StrIdx("end")), StrNode("y")) }
      [] operation = "ExtendList" ->
           { Request(K1("l"), StrNode("y")),
             Request(K1i("l", StrIdx("start")), ListNode(<<StrNode("x"), StrNode("y")>>)) }
      [] operation = "InsertToList" ->
           { Request(K1i("l", IntIdx(0)), StrNode("y")),
             Request(K1i("l", IntIdx(MaxIdx + 1)), StrNode("y")) }

OpReqs == UNION {{[op |-> o, kv |-> q] : q \in ReqsOf(o)} : o \in KeyOperations}

RECURSIVE BatchOf(_, _)
\* the requests of one operation among those supplied, in the order supplied
BatchOf(supplied, operation) ==
    IF Len(supplied) = 0 THEN <<>>
    ELSE (IF Head(supplied).op = operation THEN <<Head(supplied).kv>> ELSE <<>>)
         \o BatchOf(Tail(supplied), operation)

\* the arguments of relayer_config
Arguments(supplied, merge, ignore_not_found) ==
    [rm_keys              |-> BatchOf(supplied, "Remove"),
     rm_list_element_keys |-> BatchOf(supplied, "RemoveListElement"),
     update_kvs           |-> BatchOf(supplied, "Update"),
     add_kvs              |-> BatchOf(supplied, "Add"),
     extend_kvs           |-> BatchOf(supplied, "ExtendList"),
     insert_kvs           |-> BatchOf(supplied, "InsertToList"),
     file_path_to_merge   |-> merge,
     ignore_not_found     |-> ignore_not_found]

NoArguments == Arguments(<<>>, NoneVal, FALSE)

----------------------------------------------------------------------------
(* Relayer.relayer_config: one invocation on one Relayer object *)

VARIABLES
    debug,      \* Relayer._debug
    stored,     \* the document in the file at config_path
    args,       \* the arguments of the invocation
    pc,         \* where relayer_config stands
    config,     \* the local config
    loaded,     \* what _load_config returned
    changed,    \* rm_changed, rm_list_changed, ..., merge_changed
    error,      \* the exception that ended the invocation, NoError if none
    dumps,      \* calls of _dump_config
    k_pc,       \* a single _mod_kvs call on one request: where it stands
    k_config,   \* its config argument
    k_op,       \* its operation
    k_kv,       \* its request
    k_ign,      \* its ignore_not_found
    k_res,      \* what it returned or raised
    m_pc,       \* a single _deep_merge_dicts call: where it stands
    m_a,        \* its d1 as it was passed
    m_b,        \* its d2
    m_res,      \* d1 as the call left it (the value returned)
    p_pc,       \* a single _mod_kvs call on one raw kv string: where it stands
    p_config,   \* its config argument
    p_op,       \* its operation
    p_kv,       \* the kv string, character by character
    p_ign,      \* its ignore_not_found
    p_req,      \* the key and value of line 279, or the exception before it
    p_res,      \* what it returned or raised
    v_pc,       \* a single convert_value_to_yaml call: where it stands
    v_in,       \* its value argument
    v_out       \* what it returned

rvars == <<debug, stored, args, pc, config, loaded, changed, error, dumps>>

kvars == <<k_pc, k_config, k_op, k_kv, k_ign, k_res>>

mvars == <<m_pc, m_a, m_b, m_res>>

pvars == <<p_pc, p_config, p_op, p_kv, p_ign, p_req, p_res>>

vvars == <<v_pc, v_in, v_out>>

vars == <<debug, stored, args, pc, config, loaded, changed, error, dumps,
          k_pc, k_config, k_op, k_kv, k_ign, k_res,
          m_pc, m_a, m_b, m_res, p_pc, p_config, p_op, p_kv, p_ign, p_req, p_res,
          v_pc, v_in, v_out>>

MInitOff ==
    /\ m_pc = "off"
    /\ m_a = EmptyMap
    /\ m_b = EmptyMap
    /\ m_res = EmptyMap

PInitOff ==
    /\ p_pc = "off"
    /\ p_config = EmptyMap
    /\ p_op = "none"
    /\ p_kv = <<>>
    /\ p_ign = FALSE
    /\ p_req = Parsed(Request(<<>>, NoneVal))
    /\ p_res = Ok(EmptyMap, FALSE)

VInitOff ==
    /\ v_pc = "off"
    /\ v_in = NoneVal
    /\ v_out = NoneVal

NothingChanged == [o \in KeyOperations \cup {"Merge"} |-> FALSE]

KInitOff ==
    /\ k_pc = "off"
    /\ k_config = EmptyMap
    /\ k_op = "none"
    /\ k_kv = Request(<<>>, NoneVal)
    /\ k_ign = FALSE
    /\ k_res = Ok(EmptyMap, FALSE)

Init ==
    /\ debug \in BOOLEAN
    /\ stored \in Docs
    /\ args = NoArguments
    /\ pc = "idle"
    /\ config = EmptyMap
    /\ loaded = EmptyMap
    /\ changed = NothingChanged
    /\ error = NoError
    /\ dumps = 0
    /\ KInitOff
    /\ MInitOff
    /\ PInitOff
    /\ VInitOff

\* lines 36-50: the call, _resolve_config_path and _load_config
Invoke ==
    /\ pc = "idle"
    /\ \E supplied \in SeqsUpTo(OpReqs, MaxReqs), merge \in MergeDocs,
          ignore_not_found \in BOOLEAN :
            args' = Arguments(supplied, merge, ignore_not_found)
    /\ config' = stored
    /\ loaded' = stored
    /\ pc' = "Remove"
    /\ UNCHANGED <<debug, stored, changed, error, dumps>>
    /\ UNCHANGED <<kvars, mvars, pvars, vvars>>

\* mutant: the exception of a batch is swallowed and the invocation goes on
ModKvsReturn_swallowing(operation, next, r) ==
    /\ config' = r.sec
    /\ error' = NoError
    /\ pc' = next
    /\ changed' = [changed EXCEPT ![operation] = r.changed]

\* r is what the _mod_kvs call returned or raised
ModKvsReturn(operation, next, r) ==
    /\ config' = r.sec
    /\ error' = r.err
    /\ IF r.err # NoError
       THEN pc' = "failed" /\ UNCHANGED changed
       ELSE pc' = next /\ changed' = [changed EXCEPT ![operation] = r.changed]

\* one of the six _mod_kvs calls of lines 51-74
ModKvsCall(operation, kvs, ignore_not_found, next) ==
    /\ pc = operation
    /\ ModKvsReturn(operation, next, _mod_kvs(config, kvs, operation, ignore_not_found))
    /\ UNCHANGED <<debug, stored, args, loaded, dumps>>
    /\ UNCHANGED <<kvars, mvars, pvars, vvars>>

RmKeys == ModKvsCall("Remove", args.rm_keys, args.ignore_not_found, "RemoveListElement")

RmListElementKeys ==
    ModKvsCall("RemoveListElement", args.rm_list_element_keys, args.ignore_not_found,
               "Update")

UpdateKvs == ModKvsCall("Update", args.update_kvs, FALSE, "Add")

AddKvs == ModKvsCall("Add", args.add_kvs, FALSE, "ExtendList")

ExtendKvs == ModKvsCall("ExtendList", args.extend_kvs, FALSE, "InsertToList")

InsertKvs == ModKvsCall("InsertToList", args.insert_kvs, FALSE, "Merge")

MergeReturn(r) ==
    /\ config' = r.sec
    /\ changed' = [changed EXCEPT !["Merge"] = r.changed]

\* lines 76-77, a file to merge was given
MergeConfigs ==
    /\ pc = "Merge"
    /\ args.file_path_to_merge # NoneVal
    /\ MergeReturn(_merge_configs(config, args.file_path_to_merge))
    /\ pc' = "decide"
    /\ UNCHANGED <<debug, stored, args, loaded, error, dumps>>
    /\ UNCHANGED <<kvars, mvars, pvars, vvars>>

\* line 76, file_path_to_merge is None
NoMerge ==
    /\ pc = "Merge"
    /\ args.file_path_to_merge = NoneVal
    /\ pc' = "decide"
    /\ UNCHANGED <<debug, stored, args, config, loaded, changed, error, dumps>>
    /\ UNCHANGED <<kvars, mvars, pvars, vvars>>

AnyChanged == \E o \in DOMAIN changed : changed[o]

\* lines 90-95
NoChanges ==
    /\ pc = "decide"
    /\ ~AnyChanged
    /\ pc' = "done"
    /\ UNCHANGED <<debug, stored, args, config, loaded, changed, error, dumps>>
    /\ UNCHANGED <<kvars, mvars, pvars, vvars>>

\* line 97 and _dump_config: to stdout when debugging, else to the file
DumpConfig ==
    /\ pc = "decide"
    /\ AnyChanged
    /\ dumps' = dumps + 1
    /\ stored' = IF debug THEN stored ELSE config
    /\ pc' = "done"
    /\ UNCHANGED <<debug, args, config, loaded, changed, error>>
    /\ UNCHANGED <<kvars, mvars, pvars, vvars>>

Next ==
    \/ Invoke
    \/ RmKeys
    \/ RmListElementKeys
    \/ UpdateKvs
    \/ AddKvs
    \/ ExtendKvs
    \/ InsertKvs
    \/ MergeConfigs
    \/ NoMerge
    \/ NoChanges
    \/ DumpConfig

Spec == Init /\ [][Next]_vars

----------------------------------------------------------------------------
(* Relayer._mod_kvs on a single request: every operation on every key of   *)
(* up to MaxLevels levels over a set of documents                          *)

X == StrNode("x")

Y == StrNode("y")

One == IntNode("1")

Trees ==
    { EmptyMap,
      Doc(("a" :> X) @@ ("b" :> One)),
      Doc(("a" :> ListNode(<<X, Y>>)) @@ ("b" :> BoolNode("True"))),
      Doc(("a" :> Doc(("b" :> X) @@ ("a" :> One)))),
      Doc(("a" :> ListNode(<<Doc(("b" :> One)), X, Doc(("b" :> IntNode("2")))>>))
          @@ ("b" :> ListNode(<<X>>))),
      Doc(("a" :> Doc(("a" :> ListNode(<<X>>)) @@ ("b" :> Doc(("b" :> Y)))))
          @@ ("b" :> FloatNode("1.5"))),
      Doc(("a" :> ListNode(<<>>)) @@ ("b" :> EmptyMap)),
      Doc(("a" :> ListNode(<<Doc(("b" :> ListNode(<<X, Y>>)))>>))),
      Doc(("a" :> ListNode(<<X, Y, X>>))) }

LevelNames == {"a", "b", "x"}

\* the bracketed indices of a terminal level
TerminalIdxs ==
    {NoIdx} \cup {IntIdx(n) : n \in 0..MaxIdx}
            \cup {StrIdx(t) : t \in {"start", "end", "", "x", "true"}}

\* the bracketed indices of a level that is followed by another
InnerIdxs == {NoIdx, IntIdx(0), IntIdx(1), StrIdx("end")}

RECURSIVE KeysOfLen(_)
KeysOfLen(n) ==
    IF n = 1 THEN {<<Seg(name, idx)>> : name \in LevelNames, idx \in TerminalIdxs}
    ELSE {<<Seg(name, idx)>> \o rest :
             name \in LevelNames, idx \in InnerIdxs, rest \in KeysOfLen(n - 1)}

\* keys without brackets, one level deeper
PlainKeys == [1..(MaxLevels + 1) -> {Seg(name, NoIdx) : name \in LevelNames}]

Keys == UNION {KeysOfLen(n) : n \in 1..MaxLevels} \cup PlainKeys

\* converted request values
Values == {X, Y, One, BoolNode("True"), ListNode(<<X>>), ListNode(<<X, Y>>)}

KeyReqsOf(operation) ==
    IF operation \in all_remove_operations
    THEN {Request(key, NoneVal) : key \in Keys}
    ELSE {Request(key, value) : key \in Keys, value \in Values}

\* relayer_config passes ignore_not_found to the two removal batches only
IgnoreOf(operation) ==
    IF operation \in all_remove_operations THEN BOOLEAN ELSE {FALSE}

RInitOff ==
    /\ debug = FALSE
    /\ stored = EmptyMap
    /\ args = NoArguments
    /\ pc = "off"
    /\ config = EmptyMap
    /\ loaded = EmptyMap
    /\ changed = NothingChanged
    /\ error = NoError
    /\ dumps = 0

InitKey ==
    /\ RInitOff
    /\ MInitOff
    /\ PInitOff
    /\ VInitOff
    /\ k_pc = "ready"
    /\ k_config \in Trees
    /\ k_op = "none"
    /\ k_kv = Request(<<>>, NoneVal)
    /\ k_ign = FALSE
    /\ k_res = Ok(k_config, FALSE)

\* _mod_kvs(k_config, [kv], operation, ignore_not_found)
ModKvsOne(operation) ==
    /\ k_pc = "ready"
    /\ \E kv \in KeyReqsOf(operation), ignore_not_found \in IgnoreOf(operation) :
          /\ k_kv' = kv
          /\ k_ign' = ignore_not_found
          /\ k_res' = _mod_kvs(k_config, <<kv>>, operation, ignore_not_found)
    /\ k_op' = operation
    /\ k_pc' = "done"
    /\ UNCHANGED k_config
    /\ UNCHANGED <<rvars, mvars, pvars, vvars>>

KeyRemove == ModKvsOne("Remove")

KeyRemoveListElement == ModKvsOne("RemoveListElement")

KeyUpdate == ModKvsOne("Update")

KeyAdd == ModKvsOne("Add")

KeyExtendList == ModKvsOne("ExtendList")

KeyInsertToList == ModKvsOne("InsertToList")

NextKey ==
    \/ KeyRemove
    \/ KeyRemoveListElement
    \/ KeyUpdate
    \/ KeyAdd
    \/ KeyExtendList
    \/ KeyInsertToList

SpecKey == InitKey /\ [][NextKey]_vars

----------------------------------------------------------------------------
(* Relayer._deep_merge_dicts on a pair of Map documents *)

\* leaf values of the documents merged: scalars that Python holds equal
\* across types (1 == True) and Lists
MergeLeaves == {X, One, BoolNode("True"), ListNode(<<X>>)}

\* the Maps one level down
MergeInner ==
    UNION {[keys -> {X, One}] : keys \in SUBSET {"c", "d"}}

MergeValues == MergeLeaves \cup {MapNode(f) : f \in MergeInner}

\* the documents config_a and config_b are drawn from
MergeTrees ==
    {MapNode(f) : f \in UNION {[keys -> MergeValues] : keys \in SUBSET {"a", "b"}}}

InitMerge ==
    /\ RInitOff
    /\ KInitOff
    /\ PInitOff
    /\ VInitOff
    /\ m_pc = "ready"
    /\ m_a \in MergeTrees
    /\ m_b \in MergeTrees
    /\ m_res = m_a

\* self._deep_merge_dicts(config_a, config_b)
DeepMergeDicts ==
    /\ m_pc = "ready"
    /\ m_res' = _deep_merge_dicts(m_a, m_b)
    /\ m_pc' = "done"
    /\ UNCHANGED <<m_a, m_b>>
    /\ UNCHANGED <<rvars, kvars, pvars, vvars>>

NextMerge == DeepMergeDicts

SpecMerge == InitMerge /\ [][NextMerge]_vars

----------------------------------------------------------------------------
(* helpers.convert_value_to_yaml on one value *)

\* most characters of a value string
MaxValueChars == 4

\* the characters value strings are written with
CoerceChars == {"0", "1", "-", ".", " ", "t", "n", "o", "N", "x"}

\* strings that list elements and dict keys and values are drawn from
ShortTexts ==
    { <<" ", "1">>, <<"1", ".", "0">>, <<"1">>, <<"N", "o">>, <<"x", " ">>, <<>> }

RawScalars == {RawStr(chars) : chars \in SeqsUpTo(CoerceChars, MaxValueChars)}

RawLists == {ListNode(l) : l \in [1..1 -> {RawStr(t) : t \in ShortTexts}]
                                  \cup [1..2 -> {RawStr(t) : t \in ShortTexts}]}

\* what a dict of the literal grammar binds a key to: a string or a list
RawDictValues ==
    {RawStr(t) : t \in ShortTexts}
        \cup {ListNode(<<RawStr(<<"t">>), RawStr(<<"-", "1">>)>>)}

\* dicts of one or two keys
RawDicts ==
    {RawMap(<<Item(k, val)>>) : k \in ShortTexts, val \in RawDictValues}
        \cup {RawMap(<<Item(ks[1], v1), Item(ks[2], v2)>>) :
                 ks \in {p \in ShortTexts \X ShortTexts : p[1] # p[2]},
                 v1 \in {RawStr(<<"1">>), RawStr(<<"x", " ">>)}, v2 \in RawDictValues}

RawValues == {NoneVal} \cup RawScalars \cup RawLists \cup RawDicts

InitConvert ==
    /\ RInitOff
    /\ KInitOff
    /\ MInitOff
    /\ PInitOff
    /\ v_pc = "ready"
    /\ v_in \in RawValues
    /\ v_out = NoneVal

\* helpers.convert_value_to_yaml(value)
ConvertValueToYaml ==
    /\ v_pc = "ready"
    /\ v_out' = convert_value_to_yaml(v_in)
    /\ v_pc' = "done"
    /\ UNCHANGED v_in
    /\ UNCHANGED <<rvars, kvars, mvars, pvars>>

NextConvert == ConvertValueToYaml

SpecConvert == InitConvert /\ [][NextConvert]_vars

----------------------------------------------------------------------------
(* Relayer._mod_kvs on one kv string *)

\* most characters of a request key
MaxKeyChars == 5

\* the characters request keys are written with
KeyChars == {"a", "b", ".", "\\"}

DottedKeys == SeqsUpTo(KeyChars, MaxKeyChars)

\* keys with brackets, and keys of the documents below
BracketKeys ==
    { <<"a">>, <<"n">>, <<"b", ".", "a">>,
      <<"a", "\\", ".", "b", ".", "c">>, <<"a", ".", "b", ".", "c">>,
      <<"a", "[", "0", "]">>, <<"a", "[", "1", "]">>, <<"a", "[", "e", "n", "d", "]">>,
      <<"a", "[", "]">>, <<"a", "[", "0", "]", "x">>,
      <<"b", "[", "0", "]", "[", "1", "]">>, <<"n", "[", "0", "]">> }

\* the keys that every value of the model is sent to
ValueKeys == { <<"n">>, <<"a">>, <<"a", "[", "e", "n", "d", "]">> }

\* the characters request values are written with
ValueChars == {"x", "1", ",", "t", " "}

ValueTexts == SeqsUpTo(ValueChars, MaxValueChars)

\* values of the dictionary grammar, well-formed and not
BraceTexts ==
    { <<"{", "a", ":", "1", "}">>,
      <<"{", "a", ":", "1", ",", "x", "}">>,
      <<"{", "a", ":", "1", ",", "b", ":", "t", "}">>,
      <<"{", "a", ":", "1", "}", ",", "{", "b", ":", "x", "}">>,
      <<"{", "1", ":", "x", ",", " ", "1", ":", "t", "}">>,
      <<"{", "b", "b", ":", "a", "a", ",", "d", "d", ":", "2", "2", ".", "2", "}", ",",
        "{", "k", "k", ":", "1", "}">>,
      <<"{", "x", "}">>, <<"x", "}", "{">>, <<"{">> }

\* most tokens of one brace group
MaxTokens == 3

\* the tokens between the commas of a group: key:value, and a value alone
KeyTokens ==
    { <<"a", ":", "1">>, <<"b", ":", "x">>, <<"1", ":", "x">>, <<" ", "1", ":", "t">> }

PlainTokens == { <<"x">>, <<"2">>, <<>> }

RECURSIVE JoinTokens(_)
\* tokens with a comma between them
JoinTokens(tokens) ==
    IF Len(tokens) = 1 THEN tokens[1]
    ELSE tokens[1] \o <<",">> \o JoinTokens(Tail(tokens))

\* the texts of up to n tokens
GroupBodies(n) ==
    {JoinTokens(tokens) :
        tokens \in UNION {[1..k -> KeyTokens \cup PlainTokens] : k \in 1..n}}

Group(body) == <<"{">> \o body \o <<"}">>

\* one group, and two groups with and without a comma between them
GroupedTexts ==
    {Group(body) : body \in GroupBodies(MaxTokens)}
        \cup {Group(b1) \o sep \o Group(b2) :
                 b1 \in GroupBodies(1), b2 \in GroupBodies(2), sep \in {<<>>, <<",">>}}

\* groups whose braces do not pair
UnbalancedTexts ==
    UNION {{ <<"{">> \o body, body \o <<"}">>, Group(body) \o <<"}">>,
             <<"{">> \o Group(body), Group(body) \o <<"{">> \o body,
             Group(body) \o <<",">> \o body \o <<"}">> } : body \in GroupBodies(1)}

Kv(key, value) == key \o <<"=">> \o value

RawKvsOf(operation) ==
    IF operation \in all_remove_operations
    THEN DottedKeys \cup BracketKeys \cup {Kv(key, <<"x">>) : key \in BracketKeys}
    ELSE {Kv(key, <<"x">>) : key \in DottedKeys \cup BracketKeys}
           \cup {Kv(key, value) :
                    key \in ValueKeys,
                    value \in ValueTexts \cup BraceTexts \cup GroupedTexts \cup UnbalancedTexts}
           \cup BracketKeys

\* a document with a top-level key "a.b" beside the nested keys a, b, c, and
\* a document with a List
ParseTrees ==
    { Doc(("a.b" :> Doc(("c" :> Y))) @@ ("a" :> Doc(("b" :> Doc(("c" :> Y)))))),
      Doc(("a" :> ListNode(<<X, One>>)) @@ ("b" :> Doc(("a" :> X)))) }

InitParse ==
    /\ RInitOff
    /\ KInitOff
    /\ MInitOff
    /\ VInitOff
    /\ p_pc = "ready"
    /\ p_config \in ParseTrees
    /\ p_op = "none"
    /\ p_kv = <<>>
    /\ p_ign = FALSE
    /\ p_req = Parsed(Request(<<>>, NoneVal))
    /\ p_res = Ok(p_config, FALSE)

\* what _mod_kvs(p_config, [kv], operation, ignore_not_found) leaves
ModKvsRawReturn(operation, kv, ignore_not_found, parsed) ==
    /\ p_kv' = kv
    /\ p_ign' = ignore_not_found
    /\ p_req' = parsed
    /\ p_res' = ModKvsParsed(p_config, parsed, operation, ignore_not_found)

\* _mod_kvs(p_config, [kv], operation, ignore_not_found)
ModKvsRaw(operation) ==
    /\ p_pc = "ready"
    /\ \E kv \in RawKvsOf(operation), ignore_not_found \in IgnoreOf(operation) :
          ModKvsRawReturn(operation, kv, ignore_not_found, ParseKv(kv, operation))
    /\ p_op' = operation
    /\ p_pc' = "done"
    /\ UNCHANGED p_config
    /\ UNCHANGED <<rvars, kvars, mvars, vvars>>

RawRemove == ModKvsRaw("Remove")

RawRemoveListElement == ModKvsRaw("RemoveListElement")

RawUpdate == ModKvsRaw("Update")

RawAdd == ModKvsRaw("Add")

RawExtendList == ModKvsRaw("ExtendList")

RawInsertToList == ModKvsRaw("InsertToList")

NextParse ==
    \/ RawRemove
    \/ RawRemoveListElement
    \/ RawUpdate
    \/ RawAdd
    \/ RawExtendList
    \/ RawInsertToList

SpecParse == InitParse /\ [][NextParse]_vars

----------------------------------------------------------------------------
(* Vocabulary of the properties *)

\* the requests of an invocation in the order Remove, RemoveListElement,
\* Update, Add, ExtendList, InsertToList, up to the batch of phase
Tagged(operation, kvs, ignore_not_found) ==
    [i \in 1..Len(kvs) |-> [op |-> operation, kv |-> kvs[i], ign |-> ignore_not_found]]

RequestsBefore(a, phase) ==
    (IF phase \in {"Remove"} THEN <<>>
     ELSE Tagged("Remove", a.rm_keys, a.ignore_not_found))
    \o (IF phase \in {"Remove", "RemoveListElement"} THEN <<>>
        ELSE Tagged("RemoveListElement", a.rm_list_element_keys, a.ignore_not_found))
    \o (IF phase \in {"Remove", "RemoveListElement", "Update"} THEN <<>>
        ELSE Tagged("Update", a.update_kvs, FALSE))
    \o (IF phase \in {"Remove", "RemoveListElement", "Update", "Add"} THEN <<>>
        ELSE Tagged("Add", a.add_kvs, FALSE))
    \o (IF phase \in {"Remove", "RemoveListElement", "Update", "Add", "ExtendList"}
        THEN <<>> ELSE Tagged("ExtendList", a.extend_kvs, FALSE))
    \o (IF phase \in {"Remove", "RemoveListElement", "Update", "Add", "ExtendList",
                      "InsertToList"}
        THEN <<>> ELSE Tagged("InsertToList", a.insert_kvs, FALSE))

AllRequests(a) == RequestsBefore(a, "Merge")

RECURSIVE OneByOne(_, _, _)
\* the requests reqs applied one after the other from request i on, each to
\* the tree the one before left, ending at the first that raises
OneByOneNext(acc, r, reqs, i) ==
    IF r.err # NoError THEN Fail(r.sec, r.err)
    ELSE OneByOne(Ok(r.sec, acc.changed \/ r.changed), reqs, i + 1)

OneByOne(acc, reqs, i) ==
    IF i > Len(reqs) THEN acc
    ELSE OneByOneNext(acc, ModifyOne(acc.sec, reqs[i].kv, reqs[i].op, reqs[i].ign),
                      reqs, i)

Phases == {"Remove", "RemoveListElement", "Update", "Add", "ExtendList",
           "InsertToList", "Merge"}

RECURSIVE Locate(_, _, _)
\* where a key leads in a tree: "present" (with the section that holds the
\* terminal level and the node found), "terminal_absent", "intermediate_absent",
\* or "leaf" when the key continues past a scalar; rest holds the levels from
\* the one that was looked up last
LocateFound(section, levels, got) ==
    IF Len(levels) = 1
    THEN IF got.found
         THEN [st |-> "present", holder |-> section, val |-> got.val, rest |-> levels]
         ELSE [st |-> "terminal_absent", holder |-> section, val |-> NoneVal,
               rest |-> levels]
    ELSE IF ~got.found
    THEN [st |-> "intermediate_absent", holder |-> section, val |-> NoneVal,
          rest |-> levels]
    ELSE IF IsScalar(got.val)
    THEN [st |-> "leaf", holder |-> section, val |-> got.val, rest |-> levels]
    ELSE Locate(got.val, Tail(levels), levels[1].idx)

Locate(section, levels, section_idx) ==
    LocateFound(section, levels, _get_subsection(section, levels[1].name, section_idx))

Located == Locate(k_config, k_kv.key, NoIdx)

IsPlainKey(levels) == \A i \in 1..Len(levels) : levels[i].idx = NoIdx

KeyDone(operation) == k_pc = "done" /\ k_op = operation

----------------------------------------------------------------------------
(* Properties of relayer_config (specification Spec) *)

\* C1: relayer_config applies all requests in one total order.  Whenever it
\* stands before a batch (or before the merge), config is the loaded document
\* with every request of the batches Remove, RemoveListElement, Update, Add,
\* ExtendList, InsertToList that come before applied one by one, in batch
\* order and inside a batch in list order, each to the tree left by the
\* requests before it; after the merge step config is that tree merged with
\* the merge document, if one was given.
C1_TotalOrder ==
    /\ pc \in Phases =>
          /\ config = OneByOne(Ok(loaded, FALSE), RequestsBefore(args, pc), 1).sec
          /\ OneByOne(Ok(loaded, FALSE), RequestsBefore(args, pc), 1).err = NoError
    /\ pc \in {"decide", "done"} =>
          config = IF args.file_path_to_merge = NoneVal
                   THEN OneByOne(Ok(loaded, FALSE), AllRequests(args), 1).sec
                   ELSE _deep_merge_dicts(
                            OneByOne(Ok(loaded, FALSE), AllRequests(args), 1).sec,
                            args.file_path_to_merge)

\* C1 witness: an invocation removed key a and then added it again (the Add
\* saw the tree without a), and a later batch and the merge built on it
C1_Witness ==
    /\ pc = "done"
    /\ args.rm_keys = <<Request(K1("a"), NoneVal)>>
    /\ args.add_kvs = <<Request(K2("a", "b"), IntNode("2"))>>
    /\ HasKey(loaded, "a") /\ loaded.m["a"] = StrNode("x")
    /\ args.file_path_to_merge # NoneVal
    /\ HasKey(config, "a") /\ HasKey(config.m["a"], "b") /\ HasKey(config.m["a"], "c")

\* what the requests of the invocation report, applied one by one
RequestsOutcome == OneByOne(Ok(loaded, FALSE), AllRequests(args), 1)

\* C2: in an invocation that raises no error, _dump_config is called (once)
\* if and only if a request reported a change or a merge document was
\* supplied; when it is not called the stored document is the one loaded;
\* a supplied merge document always sets merge_changed and leads to a dump.
C2_DumpIffChanged ==
    pc = "done" =>
        /\ error = NoError
        /\ dumps \in {0, 1}
        /\ dumps = 1 <=> (RequestsOutcome.changed \/ args.file_path_to_merge # NoneVal)
        /\ dumps = 0 => stored = loaded
        /\ (dumps = 1 /\ ~debug) => stored = config
        /\ args.file_path_to_merge # NoneVal => (changed["Merge"] /\ dumps = 1)
        /\ \A o \in KeyOperations : changed[o] => RequestsOutcome.changed

\* C2 witness: a merge that altered nothing was dumped all the same
C2_Witness ==
    /\ pc = "done"
    /\ args.file_path_to_merge # NoneVal
    /\ AllRequests(args) = <<>>
    /\ config = loaded
    /\ dumps = 1

\* C2 second case: requests that all report no change, nothing dumped
C2_WitnessNoDump ==
    /\ pc = "done"
    /\ AllRequests(args) # <<>>
    /\ dumps = 0

\* C7: fail fast without persistence.  An error ends the invocation at the
\* request that raised it: config is the tree the requests before it left
\* (with what the failing request had done to it), no later step is taken,
\* _dump_config is never called and the stored document is the one loaded.
C7_FailFast ==
    /\ error # NoError <=> pc = "failed"
    /\ pc = "failed" =>
          /\ dumps = 0
          /\ stored = loaded
          /\ RequestsOutcome.err = error
          /\ RequestsOutcome.sec = config
          /\ ~changed["Merge"]
          /\ ~ENABLED Next
    /\ pc \in {"Merge", "decide", "done"} => RequestsOutcome.err = NoError

\* C7 witness: the invocation failed after an earlier request had already
\* changed the tree in memory; more requests and a merge were still to come
C7_Witness ==
    /\ pc = "failed"
    /\ config # loaded
    /\ stored = loaded
    /\ args.rm_keys # <<>>
    /\ args.update_kvs # <<>>
    /\ args.file_path_to_merge # NoneVal
    /\ error = KeyNotFoundError

----------------------------------------------------------------------------
(* Properties of a single request (specification SpecKey) *)

\* C3: Update path=V when the existing leaf at path already equals V leaves
\* the tree unchanged and reports changed = false.
C3_EqualUpdateReportsNoChange ==
    (KeyDone("Update") /\ Located.st = "present" /\ PyEq(Located.val, k_kv.value))
        => (k_res.err = NoError /\ k_res.sec = k_config /\ ~k_res.changed)

RECURSIVE OnlyMapKeys(_, _)
\* the key has no brackets and, as far as it leads through existing nodes,
\* leads through Maps
OnlyMapKeys(section, levels) ==
    /\ IsMap(section)
    /\ levels[1].idx = NoIdx
    /\ Len(levels) > 1 =>
          IF ~HasKey(section, levels[1].name) \/ IsScalar(section.m[levels[1].name])
          THEN IsPlainKey(levels)
          ELSE OnlyMapKeys(section.m[levels[1].name], Tail(levels))

RECURSIVE FramePreserved(_, _, _)
\* every key of pre off the path is in post with its value, at the root and
\* in every Map along the path
FramePreserved(pre, post, levels) ==
    /\ IsMap(post)
    /\ \A key \in (DOMAIN pre.m) \ {levels[1].name} :
          key \in DOMAIN post.m /\ post.m[key] = pre.m[key]
    /\ (Len(levels) > 1 /\ HasKey(pre, levels[1].name) /\ IsMap(pre.m[levels[1].name]))
          => /\ HasKey(post, levels[1].name)
             /\ FramePreserved(pre.m[levels[1].name], post.m[levels[1].name],
                               Tail(levels))

\* C4: after a successful Add or Update whose key addresses Map keys only,
\* every key off the addressed path keeps its value and every Map along the
\* path keeps all its other keys.
C4_Frame ==
    ((KeyDone("Add") \/ KeyDone("Update")) /\ k_res.err = NoError
        /\ OnlyMapKeys(k_config, k_kv.key))
        => FramePreserved(k_config, k_res.sec, k_kv.key)

\* C4 witness: an Add changed a key two levels down in a document whose Maps
\* hold other keys at both levels
C4_Witness ==
    /\ KeyDone("Add") /\ k_res.err = NoError
    /\ OnlyMapKeys(k_config, k_kv.key)
    /\ k_kv.key = K2("a", "b")
    /\ HasKey(k_config, "b") /\ HasKey(k_config, "a") /\ HasKey(k_config.m["a"], "a")
    /\ k_res.sec # k_config

\* C5: Update never creates anything.  With the terminal key absent it fails
\* with "Key not found in dict", with an intermediate level absent it fails
\* with "Subsection not found in dict", and the tree is as it was.
C5_UpdateNeverCreates ==
    KeyDone("Update") =>
        /\ Located.st = "terminal_absent" =>
              (k_res.err = KeyNotFoundError /\ k_res.sec = k_config)
        /\ Located.st = "intermediate_absent" =>
              (k_res.err = SubsectionNotFoundError /\ k_res.sec = k_config)

\* C5 witness: an Update through an existing Map to an absent key
C5_Witness ==
    /\ KeyDone("Update")
    /\ Len(k_kv.key) = 2
    /\ Located.st = "terminal_absent"
    /\ IsMap(Located.holder) /\ Located.holder # k_config
    /\ k_res.err = KeyNotFoundError

\* C5 second case: an intermediate level is absent
C5_WitnessIntermediate ==
    /\ KeyDone("Update")
    /\ Located.st = "intermediate_absent"
    /\ k_res.err = SubsectionNotFoundError

RECURSIVE Nested(_, _)
\* the value under one empty Map per remaining level
Nested(levels, value) ==
    IF Len(levels) = 0 THEN value
    ELSE MapNode(levels[1].name :> Nested(Tail(levels), value))

RECURSIVE Created(_, _, _)
\* the tree with the missing part of the key created
Created(section, levels, value) ==
    IF ~HasKey(section, levels[1].name)
    THEN MapNode(MapSet(section.m, levels[1].name, Nested(Tail(levels), value)))
    ELSE MapNode(MapSet(section.m, levels[1].name,
                        Created(section.m[levels[1].name], Tail(levels), value)))

RECURSIVE LeadsToAbsentKey(_, _)
\* the key leads through existing Maps to a key that is absent
LeadsToAbsentKey(section, levels) ==
    /\ IsMap(section)
    /\ \/ ~HasKey(section, levels[1].name)
       \/ Len(levels) > 1 /\ LeadsToAbsentKey(section.m[levels[1].name], Tail(levels))

\* C6: Add on a key without brackets whose levels are absent from some Map
\* on creates an empty Map for every missing intermediate level and assigns
\* the value at the terminal key, reporting changed = true.
C6_AddCreates ==
    (KeyDone("Add") /\ IsPlainKey(k_kv.key) /\ LeadsToAbsentKey(k_config, k_kv.key))
        => /\ k_res.err = NoError
           /\ k_res.changed
           /\ k_res.sec = Created(k_config, k_kv.key, k_kv.value)

\* C6 witness: Add a.b.x=v on the empty document, two Maps created
C6_Witness ==
    /\ KeyDone("Add")
    /\ k_config = EmptyMap
    /\ k_kv.key = <<Seg("a", NoIdx), Seg("b", NoIdx), Seg("x", NoIdx)>>
    /\ k_res.sec = Doc("a" :> Doc("b" :> Doc("x" :> k_kv.value)))
    /\ k_res.changed

\* C6 second case: Add aa=bb on the empty document yields {aa: bb}
C6_WitnessEmpty ==
    /\ KeyDone("Add")
    /\ k_config = EmptyMap
    /\ k_kv = Request(K1("a"), X)
    /\ k_res = Ok(Doc("a" :> X), TRUE)

C8_WitnessRaise ==
    /\ KeyDone("Remove")
    /\ Located.st = "terminal_absent"
    /\ ~k_ign
    /\ k_res.err = KeyNotFoundError

\* the terminal level of the request
Terminal == k_kv.key[Len(k_kv.key)]

\* C9: with ignore_not_found set, a plain Remove path[i] on an existing List
\* with an integer i >= the length of the list raises nothing, leaves the
\* tree unchanged and reports changed = false.
C9_IgnoreIndexOutOfRange ==
    (KeyDone("Remove") /\ k_ign /\ Located.st = "present"
        /\ IsList(Located.val) /\ IsIntIdx(Terminal.idx)
        /\ Terminal.idx.n >= Len(Located.val.l))
        => k_res = Ok(k_config, FALSE)

\* an index, or a list-only operation, aimed at the terminal node
AimsAtList ==
    \/ (k_op \in {"Add", "Update", "InsertToList", "Remove"} /\ Terminal.idx # NoIdx)
    \/ k_op \in {"ExtendList", "InsertToList"}

\* C10: a request with a bracketed index (Add, Update, InsertToList, plain
\* Remove), or any ExtendList/InsertToList request, whose terminal node exists
\* and is not a List (and, unless it removes, differs from the value) fails
\* with "Key is not a list" and leaves the tree unchanged, whatever
\* ignore_not_found is.
C10_NotAList ==
    (k_pc = "done" /\ AimsAtList /\ Located.st = "present" /\ ~IsList(Located.val)
        /\ (k_op # "Remove" => ~PyEq(Located.val, k_kv.value)))
        => (k_res.err = NotAListError /\ k_res.sec = k_config)

----------------------------------------------------------------------------
(* Properties of the deep merge (specification SpecMerge) *)

RECURSIVE OverwriteLaw(_, _, _)
\* r is a merged with b: b's value at every key of b, a's value at every
\* key absent from b, Maps on both sides merged key by key, everything else
\* (a Map against a non-Map, a List on either side) replaced by b's value
OverwriteLaw(a, b, r) ==
    /\ IsMap(r)
    /\ DOMAIN r.m = (DOMAIN a.m) \cup (DOMAIN b.m)
    /\ \A key \in DOMAIN r.m :
          IF key \notin DOMAIN b.m THEN r.m[key] = a.m[key]
          ELSE IF key \notin DOMAIN a.m THEN r.m[key] = b.m[key]
          ELSE IF IsMap(a.m[key]) /\ IsMap(b.m[key])
               THEN OverwriteLaw(a.m[key], b.m[key], r.m[key])
          ELSE r.m[key] = b.m[key]

\* C11: deep merge overwrite law.  merge(A, B) holds B's value at every leaf
\* key present in B and A's value at every leaf key absent from B; Maps on
\* both sides are merged recursively; a Map against a non-Map, or a List on
\* either side, is replaced whole by B's value.
C11_OverwriteLaw == m_pc = "done" => OverwriteLaw(m_a, m_b, m_res)

----------------------------------------------------------------------------
(* Properties of the list handlers (specification SpecKey) *)

\* the request names an existing List at its terminal level
TargetsList == k_pc = "done" /\ Located.st = "present" /\ IsList(Located.val)

\* that List before the request, and what the same key names after it
ListBefore == Located.val.l

NodeAfter == Locate(k_res.sec, k_kv.key, NoIdx).val

\* seq with val put in at 0-based position p
InsertedAt(seq, p, val) == SubSeq(seq, 1, p) \o <<val>> \o SubSeq(seq, p + 1, Len(seq))

\* the request succeeded and left the List after at its key
ListBecomes(after) ==
    /\ k_res.err = NoError
    /\ k_res.changed
    /\ NodeAfter = ListNode(after)

\* the request failed with err and the tree is as it was
FailsWith(err) == k_res.err = err /\ k_res.sec = k_config

\* C12: InsertToList path[i]=v on an existing List of length n, v differing
\* from the List: an integer i > n fails with the index-out-of-range error
\* and the List is unchanged; 0 <= i <= n puts v at position i, the length
\* becomes n + 1 and the elements keep their order; start inserts at
\* position 0 and end appends.
C12_InsertToList ==
    (TargetsList /\ k_op = "InsertToList" /\ ~PyEq(Located.val, k_kv.value))
        => /\ (IsIntIdx(Terminal.idx) /\ Terminal.idx.n > Len(ListBefore))
                 => FailsWith(IndexOutOfRangeError)
           /\ (IsIntIdx(Terminal.idx) /\ Terminal.idx.n <= Len(ListBefore))
                 => ListBecomes(InsertedAt(ListBefore, Terminal.idx.n, k_kv.value))
           /\ IsStart(Terminal.idx) => ListBecomes(<<k_kv.value>> \o ListBefore)
           /\ IsEnd(Terminal.idx) => ListBecomes(Append(ListBefore, k_kv.value))

\* C13: Add path[idx]=v on an existing List of length n: an integer idx < n
\* overwrites the element at idx and leaves the length and every other
\* element as they were; end appends v; start inserts v at position 0; an
\* integer idx >= n fails with an index error and the List is unchanged.
C13_AddToList ==
    (TargetsList /\ k_op = "Add")
        => /\ (IsIntIdx(Terminal.idx) /\ Terminal.idx.n < Len(ListBefore))
                 => ListBecomes([ListBefore EXCEPT ![Terminal.idx.n + 1] = k_kv.value])
           /\ IsEnd(Terminal.idx) => ListBecomes(Append(ListBefore, k_kv.value))
           /\ IsStart(Terminal.idx) => ListBecomes(<<k_kv.value>> \o ListBefore)
           /\ (IsIntIdx(Terminal.idx) /\ Terminal.idx.n >= Len(ListBefore))
                 => FailsWith(IndexOutOfRangeError)

\* the new values of an ExtendList request: a single value counts as one
NewValues == IF IsList(k_kv.value) THEN k_kv.value.l ELSE <<k_kv.value>>

\* seq[0..p) followed by vals followed by seq[p..]
SplicedAt(seq, p, vals) ==
    IF p >= Len(seq) THEN seq \o vals
    ELSE SubSeq(seq, 1, p) \o vals \o SubSeq(seq, p + 1, Len(seq))

\* C14: ExtendList on an existing List L with new values V that differ from
\* L: start yields V followed by L; an integer i yields L[0..i) followed by V
\* followed by L[i..]; no index or empty brackets yields L followed by V.
\* The order inside V and inside L is kept and no element is lost.
C14_ExtendList ==
    (TargetsList /\ k_op = "ExtendList" /\ ~PyEq(Located.val, k_kv.value))
        => /\ IsStart(Terminal.idx) => ListBecomes(NewValues \o ListBefore)
           /\ IsIntIdx(Terminal.idx)
                 => ListBecomes(SplicedAt(ListBefore, Terminal.idx.n, NewValues))
           /\ (Terminal.idx = NoIdx \/ Terminal.idx = StrIdx(""))
                 => ListBecomes(ListBefore \o NewValues)

\* the element a RemoveListElement request path[s] asks to remove: s decoded
\* when it is a literal, else the string s
Wanted(idx) ==
    IF IsIntIdx(idx) THEN IntNode(ToString(idx.n))
    ELSE IF idx.s \in JsonDocuments THEN JsonLoads(idx.s)
    ELSE StrNode(idx.s)

\* C15: RemoveListElement path[s] on an existing List removes exactly one
\* element, the first that equals s (the first structurally equal one when s
\* decodes as a literal), and keeps all others in their order; when no
\* element matches, the List is unchanged and no error is raised.
C15_RemoveListElement ==
    (TargetsList /\ k_op = "RemoveListElement" /\ Terminal.idx # NoIdx)
        => IF Contains(ListBefore, Wanted(Terminal.idx))
           THEN /\ k_res.err = NoError
                /\ NodeAfter = ListNode(SeqDel(ListBefore,
                                    FirstEqual(ListBefore, Wanted(Terminal.idx)) - 1))
           ELSE k_res.err = NoError /\ k_res.sec = k_config

\* C16: a plain Remove path[i] on an existing List with an integer i below
\* the length deletes exactly the element at position i, keeps the other
\* elements in order and reports changed = true; with i at or past the length
\* and ignore_not_found unset it fails with an index error and the List is
\* unchanged.
C16_RemoveAtIndex ==
    (TargetsList /\ k_op = "Remove" /\ IsIntIdx(Terminal.idx))
        => /\ Terminal.idx.n < Len(ListBefore)
                 => ListBecomes(SeqDel(ListBefore, Terminal.idx.n))
           /\ (Terminal.idx.n >= Len(ListBefore) /\ ~k_ign)
                 => FailsWith(IndexOutOfRangeError)

----------------------------------------------------------------------------
(* Properties of the creation of Lists (specification SpecKey) *)

AppendCapable == {"Add", "ExtendList", "InsertToList"}

\* an append-capable request whose bracketed terminal level, or a level
\* before it, names a key that is absent
IndexedOnAbsentKey ==
    /\ k_pc = "done" /\ k_op \in AppendCapable
    /\ Terminal.idx # NoIdx
    /\ Located.st \in {"terminal_absent", "intermediate_absent"}

EstablishesList == IsStart(Terminal.idx) \/ IsEnd(Terminal.idx) \/ Terminal.idx = IntIdx(0)

\* the node that held the first absent level, as the request left it
HolderAfter ==
    IF Len(Located.rest) = Len(k_kv.key) THEN k_res.sec
    ELSE Locate(k_res.sec, SubSeq(k_kv.key, 1, Len(k_kv.key) - Len(Located.rest)),
                NoIdx).val

\* holder with node under name: a key of a Map, a new single-key Map at the
\* end of a List
PutUnder(holder, name, node) ==
    IF IsMap(holder) THEN MapNode(MapSet(holder.m, name, node))
    ELSE ListNode(Append(holder.l, MapNode(name :> node)))

\* the request created the absent levels with list at the terminal key
CreatesAtTerminal(list) ==
    /\ k_res.err = NoError
    /\ k_res.changed
    /\ HolderAfter = PutUnder(Located.holder, Located.rest[1].name,
                              Nested(Tail(Located.rest), list))

\* the request failed with "List doesn't exist" and made no terminal key
NoListToIndex ==
    /\ k_res.err = ListNotFoundError
    /\ Locate(k_res.sec, k_kv.key, NoIdx).st # "present"
    /\ Located.st = "terminal_absent" => k_res.sec = k_config

\* C17 as stated: under Add, ExtendList or InsertToList a terminal level on
\* an absent key with index start, end or 0 creates a new List whose single
\* element is the value; with any other index the request fails with the
\* list-not-found error and no key is created at that terminal.
C17_SingleElementList ==
    IndexedOnAbsentKey
        => IF EstablishesList THEN CreatesAtTerminal(ListNode(<<k_kv.value>>))
           ELSE NoListToIndex

\* C17 amended: the new List is the value itself when the value is a List
\* (a comma-separated value), and the List whose single element is the value
\* otherwise; with any other index the request fails with the list-not-found
\* error and no key is created at that terminal.
C17_EstablishesList ==
    IndexedOnAbsentKey
        => IF EstablishesList
           THEN CreatesAtTerminal(IF IsList(k_kv.value) THEN k_kv.value
                                  ELSE ListNode(<<k_kv.value>>))
           ELSE NoListToIndex

\* C17 witness: Add a.x[0]=x,y created the List [x, y] under a new key of an
\* existing Map
C17_Witness ==
    /\ KeyDone("Add") /\ IndexedOnAbsentKey
    /\ Terminal.idx = IntIdx(0)
    /\ Located.st = "terminal_absent" /\ Len(k_kv.key) = 2 /\ IsMap(Located.holder)
    /\ k_kv.value = ListNode(<<X, Y>>)
    /\ Locate(k_res.sec, k_kv.key, NoIdx).val = ListNode(<<X, Y>>)

\* C17 second case: InsertToList on an absent key with index 1 failed
C17_WitnessNoList ==
    /\ KeyDone("InsertToList") /\ IndexedOnAbsentKey
    /\ Terminal.idx = IntIdx(1)
    /\ k_res.err = ListNotFoundError

----------------------------------------------------------------------------
(* Properties of the value coercion (specification SpecConvert) *)

\* the coercion rule on one string: s is the string stripped, out what it
\* became
FollowsScalarRule(s, out) ==
    /\ IntAccepts(s) => out = IntNode(ToString(IntOf(s)))
    /\ (~IntAccepts(s) /\ FloatAccepts(s)) => out = FloatNode(FloatText(s))
    /\ (~IntAccepts(s) /\ ~FloatAccepts(s) /\ Join(Lower(s)) \in TrueWords)
          => out = BoolNode("True")
    /\ (~IntAccepts(s) /\ ~FloatAccepts(s) /\ Join(Lower(s)) \in FalseWords)
          => out = BoolNode("False")
    /\ (~IntAccepts(s) /\ ~FloatAccepts(s)
            /\ Join(Lower(s)) \notin TrueWords \cup FalseWords)
          => out = StrNode(Join(s))

\* the key of items[i] as the rule coerces it
CoercedKey(items, i) == single_value_convert(RawStr(items[i].k))

\* item i is the last of items that binds its key (1, " 1" and 1.0 are one key)
LastBinding(items, i) ==
    \A j \in (i + 1)..Len(items) : ~PyEq(CoercedKey(items, j), CoercedKey(items, i))

\* the text the Map holds the key of item i under: that of the first item
\* with an equal key
KeyTextOf(items, i) ==
    StrOf(CoercedKey(items, FirstOf({j \in 1..Len(items) :
                                        PyEq(CoercedKey(items, j), CoercedKey(items, i))})))

RECURSIVE FollowsRule(_, _)
\* out is raw with the rule applied to every string in it
FollowsRule(raw, out) ==
    IF raw = NoneVal THEN out = NoneVal
    ELSE IF raw.t = "raw"
    THEN IsScalar(out) /\ FollowsScalarRule(Strip(raw.c), out)
    ELSE IF IsList(raw)
    THEN /\ IsList(out) /\ Len(out.l) = Len(raw.l)
         /\ \A i \in 1..Len(raw.l) : FollowsRule(raw.l[i], out.l[i])
    ELSE /\ IsMap(out)
         /\ DOMAIN out.m = {KeyTextOf(raw.items, i) : i \in 1..Len(raw.items)}
         /\ \A i \in 1..Len(raw.items) :
               /\ FollowsScalarRule(Strip(raw.items[i].k), CoercedKey(raw.items, i))
               /\ LastBinding(raw.items, i)
                     => FollowsRule(raw.items[i].v, out.m[KeyTextOf(raw.items, i)])

\* C19: scalar coercion is total and deterministic with a fixed precedence.
\* A string, stripped of whitespace, becomes an integer when it parses as
\* one, else a float when it parses as one, else a boolean when it is one of
\* true/t/y/yes or false/f/n/no in any case, else it stays a string; None
\* passes through; every List element and every Map key and value follows
\* the same rule.
C19_Coercion == v_pc = "done" => FollowsRule(v_in, v_out)

\* C19 witness: " 1" became the integer 1 and "1.0" the float 1.0 as the
\* elements of a List
C19_Witness ==
    /\ v_pc = "done"
    /\ v_in = ListNode(<<RawStr(<<" ", "1">>), RawStr(<<"1", ".", "0">>)>>)
    /\ v_out = ListNode(<<IntNode("1"), FloatNode("1.0")>>)

\* C19 second case: the key "No" of a dict became False, its value "x " the
\* string x
C19_WitnessMap ==
    /\ v_pc = "done"
    /\ v_in = RawMap(<<Item(<<"N", "o">>, RawStr(<<"x", " ">>))>>)
    /\ v_out = MapNode("False" :> StrNode("x"))

\* C19 third case: None passed through
C19_WitnessNone == v_pc = "done" /\ v_in = NoneVal /\ v_out = NoneVal

----------------------------------------------------------------------------
(* Properties of the parsing of a kv string (specification SpecParse) *)

\* the n-th smallest member of a set of positions
NthOf(S, n) == CHOOSE i \in S : Cardinality({j \in S : j < i}) = n - 1

\* the n-th of the pieces that the positions cuts divide text into
PieceOf(text, cuts, n) ==
    SubSeq(text,
           IF n = 1 THEN 1 ELSE NthOf(cuts, n - 1) + 1,
           IF n = Cardinality(cuts) + 1 THEN Len(text) ELSE NthOf(cuts, n) - 1)

\* the dots of key that no backslash precedes
UnescapedDots(key) ==
    {i \in Positions(key, ".") : ~(i > 1 /\ key[i - 1] = "\\")}

\* the backslashes of text that a dot follows
EscapingBackslashes(text) ==
    {i \in Positions(text, "\\") : i < Len(text) /\ text[i + 1] = "."}

\* text without the backslashes that escape a dot
WithoutEscapes(text) ==
    [k \in 1..(Len(text) - Cardinality(EscapingBackslashes(text))) |->
        text[NthOf((1..Len(text)) \ EscapingBackslashes(text), k)]]

\* the segments the claim gives a key without brackets
SegmentsOf(key) ==
    [n \in 1..(Cardinality(UnescapedDots(key)) + 1) |->
        Seg(Join(WithoutEscapes(PieceOf(key, UnescapedDots(key), n))), NoIdx)]

\* the key a\.b.c
EscapedKey == <<"a", "\\", ".", "b", ".", "c">>

\* the document that holds a top-level key a.b and the nested keys a, b, c
DottedTree == Doc(("a.b" :> Doc(("c" :> Y))) @@ ("a" :> Doc(("b" :> Doc(("c" :> Y))))))

\* a request was parsed whose key holds no bracket
DottedRequest ==
    /\ p_pc = "done"
    /\ p_req.err = NoError
    /\ ~HasChar(KvKey(p_kv), "[")
    /\ ~HasChar(KvKey(p_kv), "]")

\* C18: path escaping.  The key is divided at every dot that no backslash
\* precedes and at no other place, and a backslash before a dot is dropped
\* from its segment; the key a\.b.c has exactly the segments 'a.b' and 'c',
\* and a request on it works on key c under the top-level key 'a.b' and
\* leaves the nested keys a, b, c alone.
C18_PathEscaping ==
    DottedRequest =>
        /\ p_req.req.key = SegmentsOf(KvKey(p_kv))
        /\ p_res = _mod_kvs(p_config, <<Request(SegmentsOf(KvKey(p_kv)), p_req.req.value)>>,
                            p_op, p_ign)
        /\ KvKey(p_kv) = EscapedKey =>
              /\ p_req.req.key = <<Seg("a.b", NoIdx), Seg("c", NoIdx)>>
              /\ p_res.sec.m["a"] = p_config.m["a"]
              /\ (p_op = "Update" /\ p_config = DottedTree)
                    => p_res = Ok(Doc(("a.b" :> Doc(("c" :> X)))
                                        @@ ("a" :> Doc(("b" :> Doc(("c" :> Y)))))), TRUE)
              /\ (p_op = "Remove" /\ p_config = DottedTree)
                    => p_res = Ok(Doc(("a.b" :> EmptyMap)
                                        @@ ("a" :> Doc(("b" :> Doc(("c" :> Y)))))), TRUE)

\* C18 witness: a\.b.c=x was the Update of c under the top-level key a.b
C18_Witness ==
    /\ p_pc = "done"
    /\ p_op = "Update"
    /\ p_kv = Kv(EscapedKey, <<"x">>)
    /\ p_config = DottedTree
    /\ p_res.sec.m["a.b"].m["c"] = X
    /\ p_res.sec.m["a"].m["b"].m["c"] = Y

\* C18 second case: a.b.c=x, no dot escaped, was the Update of the nested key
C18_WitnessNested ==
    /\ p_pc = "done"
    /\ p_op = "Update"
    /\ p_kv = Kv(<<"a", ".", "b", ".", "c">>, <<"x">>)
    /\ p_config = DottedTree
    /\ p_res.sec.m["a.b"].m["c"] = Y
    /\ p_res.sec.m["a"].m["b"].m["c"] = X

\* a request of a non-remove operation whose value holds no brace
PlainValueRequest ==
    /\ p_pc = "done"
    /\ p_op \notin all_remove_operations
    /\ HasChar(p_kv, "=")
    /\ ~HasChar(KvValue(p_kv), "{")
    /\ ~HasChar(KvValue(p_kv), "}")

\* the pieces of value between its commas that are not empty, by number
KeptPieces(value) ==
    {n \in 1..(Cardinality(Positions(value, ",")) + 1) :
        Len(PieceOf(value, Positions(value, ","), n)) > 0}

\* the List the claim gives a value with commas
SegmentList(value) ==
    ListNode([k \in 1..Cardinality(KeptPieces(value)) |->
                 single_value_convert(
                     RawStr(PieceOf(value, Positions(value, ","),
                                    NthOf(KeptPieces(value), k))))])

\* what the claim gives a value without a brace
PlainValueOf(value) ==
    IF HasChar(value, ",") THEN SegmentList(value)
    ELSE single_value_convert(RawStr(value))

\* C20: a non-remove request value that holds a comma and no brace becomes
\* the List of its comma-separated segments in order, the empty segments
\* dropped and every other segment coerced by itself; a value with neither
\* comma nor brace stays one scalar.  An Add on an absent top-level key
\* stores exactly that value.
C20_CommaList ==
    PlainValueRequest =>
        /\ p_req.err = NoError
        /\ p_req.req.value = PlainValueOf(KvValue(p_kv))
        /\ HasChar(KvValue(p_kv), ",") => IsList(p_req.req.value)
        /\ ~HasChar(KvValue(p_kv), ",") => IsScalar(p_req.req.value)
        /\ (p_op = "Add" /\ KvKey(p_kv) = <<"n">>)
              => p_res = Ok(MapNode(p_config.m @@ ("n" :> PlainValueOf(KvValue(p_kv)))), TRUE)

\* C20 witness: n=x,,1 stored the List [x, 1] under n
C20_Witness ==
    /\ p_pc = "done"
    /\ p_op = "Add"
    /\ p_kv = Kv(<<"n">>, <<"x", ",", ",", "1">>)
    /\ p_res.err = NoError
    /\ p_res.sec.m["n"] = ListNode(<<X, One>>)

\* C20 second case: n=x, stored the List [x]
C20_WitnessTrailing ==
    /\ p_pc = "done"
    /\ p_op = "Add"
    /\ p_kv = Kv(<<"n">>, <<"x", ",">>)
    /\ p_res.err = NoError
    /\ p_res.sec.m["n"] = ListNode(<<X>>)

\* C20 third case: n=x 1, without a comma, stored one string
C20_WitnessScalar ==
    /\ p_pc = "done"
    /\ p_op = "Add"
    /\ p_kv = Kv(<<"n">>, <<"x", " ", "1">>)
    /\ p_res.err = NoError
    /\ p_res.sec.m["n"] = StrNode("x 1")

----------------------------------------------------------------------------
(* Properties of the values written with braces (specification SpecParse) *)

\* the text of value strictly between positions i and j
Between(value, i, j) == SubSeq(value, i + 1, j - 1)

\* value is brace groups and nothing else: every "{" is closed before the
\* next one opens, nothing stands before the first group or after the last,
\* and at most a comma stands between two groups
MadeOfGroups(value) ==
    LET opens == Positions(value, "{")
        closes == Positions(value, "}")
        n == Cardinality(opens)
    IN  /\ n > 0
        /\ Cardinality(closes) = n
        /\ \A g \in 1..n : NthOf(opens, g) < NthOf(closes, g)
        /\ \A g \in 1..(n - 1) :
              /\ NthOf(closes, g) < NthOf(opens, g + 1)
              /\ Between(value, NthOf(closes, g), NthOf(opens, g + 1)) \in {<<>>, <<",">>}
        /\ NthOf(opens, 1) = 1
        /\ NthOf(closes, n) = Len(value)

\* the text inside the g-th group
GroupBody(value, g) ==
    Between(value, NthOf(Positions(value, "{"), g), NthOf(Positions(value, "}"), g))

TokenCount(body) == Cardinality(Positions(body, ",")) + 1

\* the t-th token of a group
Token(body, t) == PieceOf(body, Positions(body, ","), t)

\* the tokens that name a key
KeyTokensOf(body) == {t \in 1..TokenCount(body) : HasChar(Token(body, t), ":")}

\* the key that the j-th key token names
KeyTextOfToken(body, j) ==
    CutBefore(Token(body, NthOf(KeyTokensOf(body), j)),
              FirstOf(Positions(Token(body, NthOf(KeyTokensOf(body), j)), ":")))

\* the values of the j-th key: what follows its colon, then every token up
\* to the next key token
ValuesOfKey(body, j) ==
    LET t == NthOf(KeyTokensOf(body), j)
        next == IF j = Cardinality(KeyTokensOf(body)) THEN TokenCount(body) + 1
                ELSE NthOf(KeyTokensOf(body), j + 1)
    IN  <<CutAfter(Token(body, t), FirstOf(Positions(Token(body, t), ":")))>>
        \o [i \in 1..(next - t - 1) |-> Token(body, t + i)]

\* one value: the scalar; several: the List
BoundValue(texts) ==
    IF Len(texts) = 1 THEN single_value_convert(RawStr(texts[1]))
    ELSE ListNode([i \in 1..Len(texts) |-> single_value_convert(RawStr(texts[i]))])

CoercedKeyOf(body, j) == single_value_convert(RawStr(KeyTextOfToken(body, j)))

\* the group starts with a key and no two of its keys are equal
KeyedGroup(body) ==
    /\ 1 \in KeyTokensOf(body)
    /\ \A i, j \in 1..Cardinality(KeyTokensOf(body)) :
          i # j => ~PyEq(CoercedKeyOf(body, i), CoercedKeyOf(body, j))

\* the Map the claim gives a group
GroupMap(body) ==
    MapNode([key \in {StrOf(CoercedKeyOf(body, j)) : j \in 1..Cardinality(KeyTokensOf(body))} |->
                BoundValue(ValuesOfKey(body,
                    CHOOSE j \in 1..Cardinality(KeyTokensOf(body)) :
                        StrOf(CoercedKeyOf(body, j)) = key))])

\* the List of Maps the claim gives a value made of groups
GroupList(value) ==
    ListNode([g \in 1..Cardinality(Positions(value, "{")) |-> GroupMap(GroupBody(value, g))])

\* a non-remove request whose value is made of brace groups, each starting
\* with a key
GroupedRequest ==
    /\ p_pc = "done"
    /\ p_op \notin all_remove_operations
    /\ HasChar(p_kv, "=")
    /\ MadeOfGroups(KvValue(p_kv))
    /\ \A g \in 1..Cardinality(Positions(KvValue(p_kv), "{")) :
          KeyedGroup(GroupBody(KvValue(p_kv), g))

\* the value of the claim: {bb:aa,dd:22.2},{kk:1}
TwoGroups ==
    <<"{", "b", "b", ":", "a", "a", ",", "d", "d", ":", "2", "2", ".", "2", "}", ",",
      "{", "k", "k", ":", "1", "}">>

\* C21: a value made of brace groups becomes a List of Maps, one Map per
\* group in the order written; in a group k:v binds v to k and the tokens
\* without a colon that follow are further values of the key seen last, so
\* that a key with one value maps to a scalar and a key with several to a
\* List; {bb:aa,dd:22.2},{kk:1} gives [{bb: aa, dd: 22.2}, {kk: 1}].
C21_BraceGroups ==
    GroupedRequest =>
        /\ p_req.err = NoError
        /\ p_req.req.value = GroupList(KvValue(p_kv))
        /\ (p_op = "Add" /\ KvKey(p_kv) = <<"n">>)
              => p_res = Ok(MapNode(p_config.m @@ ("n" :> GroupList(KvValue(p_kv)))), TRUE)
        /\ KvValue(p_kv) = TwoGroups
              => p_req.req.value
                   = ListNode(<<MapNode(("bb" :> StrNode("aa")) @@ ("dd" :> FloatNode("22.2"))),
                                MapNode(("kk" :> One))>>)

\* C21 witness: n={bb:aa,dd:22.2},{kk:1} stored [{bb: aa, dd: 22.2}, {kk: 1}]
C21_Witness ==
    /\ p_pc = "done"
    /\ p_op = "Add"
    /\ p_kv = Kv(<<"n">>, TwoGroups)
    /\ p_res.err = NoError
    /\ p_res.sec.m["n"]
         = ListNode(<<MapNode(("bb" :> StrNode("aa")) @@ ("dd" :> FloatNode("22.2"))),
                      MapNode(("kk" :> One))>>)

\* C21 second case: n={a:1,x,2} stored [{a: [1, x, 2]}], one key with three
\* values
C21_WitnessSeveral ==
    /\ p_pc = "done"
    /\ p_op = "Add"
    /\ p_kv = Kv(<<"n">>, <<"{", "a", ":", "1", ",", "x", ",", "2", "}">>)
    /\ p_res.err = NoError
    /\ p_res.sec.m["n"]
         = ListNode(<<MapNode(("a" :> ListNode(<<One, X, IntNode("2")>>)))>>)

\* an opening brace that no closing brace follows before the next opening one
UnclosedBrace(value) ==
    \E i \in Positions(value, "{") :
        ~\E j \in Positions(value, "}") :
            i < j /\ ~\E k \in Positions(value, "{") : i < k /\ k < j

\* a closing brace that no opening brace precedes after the last closing one
UnopenedBrace(value) ==
    \E j \in Positions(value, "}") :
        ~\E i \in Positions(value, "{") :
            i < j /\ ~\E k \in Positions(value, "}") : i < k /\ k < j

\* a group whose first token is a value, not a key
ValueBeforeKey(value) ==
    /\ MadeOfGroups(value)
    /\ \E g \in 1..Cardinality(Positions(value, "{")) :
          1 \notin KeyTokensOf(GroupBody(value, g))

MalformedGrouping(value) ==
    UnclosedBrace(value) \/ UnopenedBrace(value) \/ ValueBeforeKey(value)

\* C22: a value with malformed grouping (an opening brace without a closing
\* one, a closing brace without an opening one, or a value token before any
\* key of a group) is rejected with the value-syntax error and the request
\* leaves the tree as it was.
C22_MalformedRejected ==
    (/\ p_pc = "done"
     /\ p_op \notin all_remove_operations
     /\ HasChar(p_kv, "=")
     /\ MalformedGrouping(KvValue(p_kv)))
        => /\ p_req.err = WrongValueSyntaxError
           /\ p_res = Fail(p_config, WrongValueSyntaxError)

----------------------------------------------------------------------------
(* Properties of index assignment and of resolution inside Lists           *)
(* (specification SpecKey)                                                 *)

\* Add or Update on an existing List with the index start or end
StartEndAssign ==
    /\ TargetsList
    /\ k_op \in {"Add", "Update"}
    /\ IsStart(Terminal.idx) \/ IsEnd(Terminal.idx)

C23_WitnessEnd ==
    /\ StartEndAssign
    /\ k_op = "Add"
    /\ IsEnd(Terminal.idx)
    /\ IsMap(Located.holder)
    /\ Len(ListBefore) > 0
    /\ k_res.err = NoError
    /\ NodeAfter = ListNode(Append(ListBefore, k_kv.value))

\* the request has two levels and its first level names a List of k_config
InsideList ==
    /\ k_pc = "done"
    /\ Len(k_kv.key) = 2
    /\ HasKey(k_config, k_kv.key[1].name)
    /\ IsList(k_config.m[k_kv.key[1].name])

\* that List before the request and what its key holds after it
OuterList == k_config.m[k_kv.key[1].name].l

OuterAfter == k_res.sec.m[k_kv.key[1].name]

\* the 0-based positions of OuterList that the index of the first level
\* leaves eligible
EligiblePositions ==
    LET idx == k_kv.key[1].idx
    IN  IF idx = NoIdx THEN 0..(Len(OuterList) - 1)
        ELSE IF IsStart(idx) THEN {0}
        ELSE IF IsEnd(idx) THEN {Len(OuterList) - 1}
        ELSE IF IsIntIdx(idx) THEN {idx.n}
        ELSE {}

\* the eligible positions whose element is the name of the second level or
\* a Map with that name as a key
MatchingPositions ==
    {p \in EligiblePositions \cap (0..(Len(OuterList) - 1)) :
        \/ OuterList[p + 1] = StrNode(k_kv.key[2].name)
        \/ HasKey(OuterList[p + 1], k_kv.key[2].name)}

ResolvedPosition == FirstOf(MatchingPositions)

\* C24: when a segment is resolved inside a List, exactly one element is
\* modified and every other element is left as it was: the element at the
\* position the preceding segment's start, end or integer index names, or,
\* without an index, the first matching element, even when several match.
C24_OneElementModified ==
    (InsideList /\ MatchingPositions # {} /\ k_res.err = NoError)
        => /\ IsList(OuterAfter)
           /\ Len(OuterAfter.l) = Len(OuterList)
           /\ \A p \in 0..(Len(OuterList) - 1) :
                 p # ResolvedPosition => OuterAfter.l[p + 1] = OuterList[p + 1]

----------------------------------------------------------------------------
(* Properties of a path that continues past a scalar (specification SpecKey) *)

\* the key continues past an existing scalar
PastScalar == k_pc = "done" /\ Located.st = "leaf"

\* C25: under Update, Remove or RemoveListElement a path that continues past
\* an existing scalar of any type (integer, float, boolean or string) fails
\* with the leaf-where-subsection-expected error, not with key-not-found or
\* subsection-not-found, and the tree is unchanged.
C25_LeafWhereSubsection ==
    (PastScalar /\ k_op \in {"Update", "Remove", "RemoveListElement"})
        => FailsWith(LeafWhereSubsectionExpectedError)

\* Add a.b=v where a is a key of k_config that holds a scalar
AddUnderScalar ==
    /\ KeyDone("Add")
    /\ Len(k_kv.key) = 2
    /\ IsPlainKey(k_kv.key)
    /\ HasKey(k_config, k_kv.key[1].name)
    /\ IsScalar(k_config.m[k_kv.key[1].name])

\* C26: under an append-capable operation a non-terminal segment that
\* resolves to a scalar held in a Map has the scalar replaced by an empty
\* Map in which the rest of the path is created: Add a.b=v on {a: scalar}
\* leaves exactly {b: v} under a, with no other key introduced.
C26_ScalarReplacedByMap ==
    AddUnderScalar
        => k_res = Ok(MapNode(MapSet(k_config.m, k_kv.key[1].name,
                                     MapNode((k_kv.key[2].name :> k_kv.value)))),
                      TRUE)

----------------------------------------------------------------------------
(* Properties of a scalar element of a List that is opened up               *)
(* (specification SpecKey)                                                  *)

\* Add list.e.k=v where list names a List of k_config that holds the scalar e
AddUnderElement ==
    /\ KeyDone("Add")
    /\ Len(k_kv.key) = 3
    /\ IsPlainKey(k_kv.key)
    /\ HasKey(k_config, k_kv.key[1].name)
    /\ IsList(k_config.m[k_kv.key[1].name])
    /\ \E p \in 1..Len(OuterList) : OuterList[p] = StrNode(k_kv.key[2].name)

\* the place of the element e: the first that equals the name
ElementPlace ==
    FirstOf({p \in 1..Len(OuterList) : OuterList[p] = StrNode(k_kv.key[2].name)})

\* seq with val at place and every other element as it was
OnlyPlaceSet(seq, place, val) == [seq EXCEPT ![place] = val]

\* the List that list names after a later Add list.e.k2=v2
AfterLaterAdd(k2, v2) ==
    _mod_kvs(k_res.sec,
             <<Request(<<k_kv.key[1], k_kv.key[2], Seg(k2, NoIdx)>>, v2)>>,
             "Add", FALSE)

\* C27: Add list.e.k=v, the List holding the scalar element e, replaces that
\* element at its place by the Map {e: {k: v}}; a later Add list.e.k2=v2
\* adds k2 to the same inner Map; the List keeps its length and every other
\* element its place and value.
C27_ElementOpened ==
    AddUnderElement
        => /\ k_res.err = NoError
           /\ OuterAfter
                = ListNode(OnlyPlaceSet(OuterList, ElementPlace,
                      MapNode((k_kv.key[2].name :>
                                  MapNode((k_kv.key[3].name :> k_kv.value))))))
           /\ \A k2 \in LevelNames \ {k_kv.key[3].name}, v2 \in Values :
                 /\ AfterLaterAdd(k2, v2).err = NoError
                 /\ AfterLaterAdd(k2, v2).sec.m[k_kv.key[1].name]
                      = ListNode(OnlyPlaceSet(OuterList, ElementPlace,
                            MapNode((k_kv.key[2].name :>
                                        MapNode((k_kv.key[3].name :> k_kv.value)
                                                    @@ (k2 :> v2))))))

----------------------------------------------------------------------------
(* Properties of the removal of a key (specification SpecKey) *)

RECURSIVE ReachesKey(_, _, _)
\* levels lead to an existing key through Map keys and through Lists whose
\* element is named by an integer index on the segment before; the terminal
\* level carries no index
ReachesKey(section, levels, section_idx) ==
    IF IsList(section)
    THEN /\ IsIntIdx(section_idx)
         /\ section_idx.n < Len(section.l)
         /\ IsMap(section.l[section_idx.n + 1])
         /\ ReachesKey(section.l[section_idx.n + 1], levels, NoIdx)
    ELSE /\ IsMap(section)
         /\ section_idx = NoIdx
         /\ HasKey(section, levels[1].name)
         /\ IF Len(levels) = 1 THEN levels[1].idx = NoIdx
            ELSE /\ levels[1].idx = NoIdx \/ IsIntIdx(levels[1].idx)
                 /\ ReachesKey(section.m[levels[1].name], Tail(levels), levels[1].idx)

RECURSIVE WithoutKey(_, _, _)
\* section with the key that levels lead to deleted from the Map that holds
\* it, and nothing else changed
WithoutKey(section, levels, section_idx) ==
    IF IsList(section)
    THEN ListNode([section.l EXCEPT ![section_idx.n + 1] =
                      WithoutKey(section.l[section_idx.n + 1], levels, NoIdx)])
    ELSE IF Len(levels) = 1 THEN MapNode(MapDel(section.m, levels[1].name))
    ELSE MapNode(MapSet(section.m, levels[1].name,
                        WithoutKey(section.m[levels[1].name], Tail(levels),
                                   levels[1].idx)))

\* a Remove whose key exists and whose terminal segment has no index
RemovesKey == KeyDone("Remove") /\ ReachesKey(k_config, k_kv.key, NoIdx)

\* C28: a plain Remove whose terminal segment has no index and whose key
\* exists deletes exactly that key from the Map that holds it, changes
\* nothing else and reports changed = true, when the Map is reached through
\* Map keys only and when it is an element of a List reached through an
\* indexed segment (Remove list[0].k).
C28_RemoveKey == RemovesKey => k_res = Ok(WithoutKey(k_config, k_kv.key, NoIdx), TRUE)

----------------------------------------------------------------------------
(* Properties of the reach of ignore_not_found *)

\* the finished request is a removal made with ignore_not_found set
IgnoringRemoval == k_pc = "done" /\ k_op \in all_remove_operations /\ k_ign

\* what the same request returns when ignore_not_found has the given value
WithIgnore(ignore_not_found) == _mod_kvs(k_config, <<k_kv>>, k_op, ignore_not_found)

\* the two errors ignore_not_found is meant to forgive
ForgivableErrors == {KeyNotFoundError, IndexOutOfRangeError}

\* C29: ignore_not_found forgives no more than an absent terminal key or an
\* index out of range: a Remove or RemoveListElement made with
\* ignore_not_found set whose path names a subsection that does not exist
\* before its last segment fails with "Subsection not found in dict" and
\* leaves the tree as it was; a removal that fails with any other error
\* without ignore_not_found fails in the same way with it, and one that
\* succeeds without it returns the same with it; and an Update, Add,
\* ExtendList or InsertToList request returns what it would return with
\* ignore_not_found set
C29_IgnoreScope ==
    /\ (IgnoringRemoval /\ Located.st = "intermediate_absent")
           => FailsWith(SubsectionNotFoundError)
    /\ (IgnoringRemoval /\ WithIgnore(FALSE).err \notin ForgivableErrors)
           => k_res = WithIgnore(FALSE)
    /\ (k_pc = "done" /\ k_op \notin all_remove_operations)
           => k_res = WithIgnore(TRUE)

\* a Remove with ignore_not_found set failed on an absent subsection
C29_Witness ==
    /\ IgnoringRemoval /\ k_op = "Remove"
    /\ Located.st = "intermediate_absent"
    /\ FailsWith(SubsectionNotFoundError)

\* the same for a RemoveListElement
C29_WitnessListElement ==
    /\ IgnoringRemoval /\ k_op = "RemoveListElement"
    /\ Located.st = "intermediate_absent"
    /\ FailsWith(SubsectionNotFoundError)

\* an Update of an absent key fails whatever ignore_not_found would be
C29_WitnessUpdate ==
    /\ KeyDone("Update") /\ Located.st = "terminal_absent"
    /\ FailsWith(KeyNotFoundError)
    /\ WithIgnore(TRUE) = k_res

----------------------------------------------------------------------------
(* Properties of the equality short-circuit *)

\* the four operations that are not removals
non_remove_operations == KeyOperations \ all_remove_operations

\* the finished request is not a removal, its terminal key exists and the
\* node found there equals the requested value (line 575)
EqualAtTerminal ==
    /\ k_pc = "done" /\ k_op \in non_remove_operations
    /\ Located.st = "present"
    /\ PyEq(Located.val, k_kv.value)

\* C30: an Update, Add, ExtendList or InsertToList request whose value equals
\* the whole node at its terminal key raises no error and leaves the tree
\* unchanged
C30_EqualityShortCircuit ==
    EqualAtTerminal => (k_res.err = NoError /\ k_res.sec = k_config)

====
